---- MODULE Spec2Model ----
(***************************************************************************)
(* A model of genedex, a multi-text FM-index: alphabet translation, the    *)
(* concatenated text, suffix array, BWT, count table, the text with rank   *)
(* support, the sampled suffix array, the text-id search tree, the k-mer   *)
(* lookup tables, the cursor, and the batched query engine.                *)
(*                                                                         *)
(* Rust slices and vectors are functions over 0 .. n-1; texts and queries  *)
(* handed in by the caller are sequences of bytes.                         *)
(***************************************************************************)
EXTENDS Integers, Sequences, FiniteSets, TLC

\* ------------------------------------------------------------------ bounds
\* at most this many texts are indexed
MaxTexts == 2
\* the indexed texts hold at most this many bytes in total
MaxTotalLen == 3
\* queries are at most this long
MaxPatLen == 2

\* bytes the indexed texts are drawn from: A, c, N
TextBytes == {65, 99, 78}
\* bytes the queries are drawn from: A, C, N (not searchable), X (not in the alphabet)
PatternBytes == {65, 67, 78, 88}
\* texts of a text id search tree under test, and their lengths
MaxTreeTexts == 8
MaxTreeTextLen == 1
\* fewer texts of greater lengths
MaxLongTreeTexts == 5
\* symbols or groups handed to an alphabet constructor, bytes in one group, and the
\* greatest num_io_symbols_not_searcheable handed over
MaxGroups == 3
MaxGroupLen == 2
MaxNotSearchable == 4
\* extend_query_front calls made on one cursor
MaxExtensions == 3
\* the greatest number of texts of a list of empty texts
MaxSentinelTexts == 1030

\* configured suffix array sampling rates (config.rs asserts > 0)
SamplingRates == {1, 2, 3}
\* configured lookup table depths
LookupDepths == {0, 1, 2}

\* ----------------------------------------------------------------- helpers
Min(a, b) == IF a < b THEN a ELSE b

div_ceil(a, b) == (a + b - 1) \div b

RECURSIVE SeqSum(_)
SeqSum(s) == IF s = <<>> THEN 0 ELSE Head(s) + SeqSum(Tail(s))

\* the sequences over S of length at most n
SeqsUpTo(S, n) == UNION {[1 .. k -> S] : k \in 0 .. n}

\* a Rust panic, as the value of an operation that unwinds
Panic == "panic"

\* ---------------------------------------------------------------- alphabet
\* ascii_dna_with_n: the groups [Aa] [Cc] [Gg] [Tt] [Nn], the last one not searchable
symbol_groups == << {65, 97}, {67, 99}, {71, 103}, {84, 116}, {78, 110} >>

num_io_symbols_not_searcheable == 1

\* a variant that keeps only the first byte of a group in it and gives the other bytes
\* the dense symbol of the group after (the last group's go to the first group)
io_to_dense_table_splitting_groups ==
    [b \in 0 .. 255 |->
        IF \E i \in 1 .. Len(symbol_groups) : b \in symbol_groups[i]
        THEN LET i == CHOOSE i \in 1 .. Len(symbol_groups) : b \in symbol_groups[i]
                 first == CHOOSE f \in symbol_groups[i] : \A o \in symbol_groups[i] : f <= o
             IN  IF b = first THEN i ELSE (i % Len(symbol_groups)) + 1
        ELSE 0]

\* from_ambiguous_io_symbols: byte -> dense symbol (group index + 1), 0 if absent
io_to_dense_representation_table ==
    [b \in 0 .. 255 |->
        IF \E i \in 1 .. Len(symbol_groups) : b \in symbol_groups[i]
        THEN CHOOSE i \in 1 .. Len(symbol_groups) : b \in symbol_groups[i]
        ELSE 0]

try_io_to_dense_representation(symbol) == io_to_dense_representation_table[symbol]

\* panics ("symbol in io representation should be valid") if the byte is absent
io_to_dense_representation(symbol) ==
    IF try_io_to_dense_representation(symbol) = 0
    THEN Panic
    ELSE try_io_to_dense_representation(symbol)

num_dense_symbols == Len(symbol_groups) + 1

num_searchable_dense_symbols == num_dense_symbols - num_io_symbols_not_searcheable - 1

\* ------------------------------------------------------------ construction
\* the dense symbols of one text followed by its sentinel 0
RECURSIVE concatenated_text_seq(_)
concatenated_text_seq(texts) ==
    IF texts = <<>> THEN <<>>
    ELSE [k \in 1 .. Len(Head(texts)) |-> io_to_dense_representation(Head(texts)[k])]
         \o <<0>> \o concatenated_text_seq(Tail(texts))

\* create_concatenated_densely_encoded_text, the text as a 0-based array
concatenated_text(texts) ==
    LET s == concatenated_text_seq(texts)
    IN  [k \in 0 .. Len(s) - 1 |-> s[k + 1]]

\* a variant of the scan that yields its state after the step: where the next text begins
sentinel_indices_after_the_sentinel(texts) ==
    [t \in 0 .. Len(texts) - 1 |->
        SeqSum([u \in 1 .. t |-> Len(texts[u]) + 1]) + Len(texts[t + 1]) + 1]

\* the scan of create_concatenated_densely_encoded_text: where each sentinel sits
sentinel_indices(texts) ==
    [t \in 0 .. Len(texts) - 1 |->
        SeqSum([u \in 1 .. t |-> Len(texts[u]) + 1]) + Len(texts[t + 1])]

ArrayLen(a) == Cardinality(DOMAIN a)

\* the merged frequency table, entry 0 overwritten with the number of texts
frequency_table(texts) ==
    LET text == concatenated_text(texts)
    IN  [c \in 0 .. 255 |->
            IF c = 0 THEN Len(texts)
            ELSE Cardinality({k \in DOMAIN text : text[k] = c})]

\* frequency_table_to_count: exclusive prefix sums over alphabet_size + 1 entries
frequency_table_to_count(freq, alphabet_size) ==
    [c \in 0 .. alphabet_size |-> SeqSum([d \in 1 .. c |-> freq[d - 1]])]

\* suffix a of text sorts before suffix b (a shorter proper prefix sorts first)
RECURSIVE SuffixLess(_, _, _)
SuffixLess(text, a, b) ==
    LET n == ArrayLen(text)
    IN  IF a = b THEN FALSE
        ELSE IF a >= n THEN TRUE
        ELSE IF b >= n THEN FALSE
        ELSE IF text[a] # text[b] THEN text[a] < text[b]
        ELSE SuffixLess(text, a + 1, b + 1)

\* construct_libsais_suffix_array: the suffixes of the text in lexicographic order
construct_libsais_suffix_array(text) ==
    LET n == ArrayLen(text)
        pos(j) == Cardinality({k \in 0 .. n - 1 : SuffixLess(text, k, j)})
    IN  [i \in 0 .. n - 1 |-> CHOOSE j \in 0 .. n - 1 : pos(j) = i]

\* bwt_from_suffix_array without slice compression: the symbol before each suffix
bwt_from_suffix_array(suffix_array, text) ==
    LET n == ArrayLen(text)
    IN  [i \in 0 .. n - 1 |->
            text[(IF suffix_array[i] > 0 THEN suffix_array[i] ELSE n) - 1]]

\* the border map collected while the BWT is written: row of a sentinel -> its suffix
text_border_lookup_of(suffix_array, bwt) ==
    [i \in {k \in DOMAIN bwt : bwt[k] = 0} |-> suffix_array[i]]

\* -------------------------------------------------------- slice compression
SliceCompressions == {"NoSliceCompression", "HalfBytesCompression"}

\* *byte = (value << 4) | (*byte & 0b00001111), on a u8
pack_into_left_half_of_byte(byte, value) == ((value * 16) % 256) + (byte % 16)

\* *byte = (*byte & 0b11110000) | (value & 0b00001111)
pack_into_right_half_of_byte(byte, value) == (byte \div 16) * 16 + (value % 16)

unpack_from_left_half_of_byte(byte) == byte \div 16

unpack_from_right_half_of_byte(byte) == byte % 16

\* half_byte_compress_text: the bytes text[0 .. len / 2) afterwards
half_byte_compress_text(text) ==
    [i \in 0 .. (ArrayLen(text) \div 2) - 1 |->
        pack_into_right_half_of_byte(pack_into_left_half_of_byte(0, text[i * 2]),
                                     text[i * 2 + 1])]

\* a variant that reads the two halves of a byte in the other order
SliceCompression_get_right_half_first(S, idx, slice) ==
    IF S = "NoSliceCompression" THEN slice[idx]
    ELSE IF idx % 2 = 0
    THEN unpack_from_right_half_of_byte(slice[idx \div 2])
    ELSE unpack_from_left_half_of_byte(slice[idx \div 2])

\* SliceCompression::get
SliceCompression_get(S, idx, slice) ==
    IF S = "NoSliceCompression" THEN slice[idx]
    ELSE IF idx % 2 = 0
    THEN unpack_from_left_half_of_byte(slice[idx \div 2])
    ELSE unpack_from_right_half_of_byte(slice[idx \div 2])

\* SliceCompression::transform_chunk_size
transform_chunk_size(S, chunk_size) ==
    IF S = "NoSliceCompression" THEN chunk_size ELSE chunk_size \div 2

\* SliceCompression::transformed_slice_len
transformed_slice_len(S, slice) ==
    IF S = "NoSliceCompression" THEN ArrayLen(slice) ELSE ArrayLen(slice) * 2

\* SliceCompression::iter: the symbols of the slice, in order
SliceCompression_iter(S, slice) ==
    [k \in 0 .. transformed_slice_len(S, slice) - 1 |-> SliceCompression_get(S, k, slice)]

\* ------------------------------------------------- text with rank support
\* A text handed to a rank structure: `len` symbols, symbol k being
\* period[k mod |period|]; a short text is its own period.
TextOfArray(a) == [len |-> ArrayLen(a), period |-> [k \in 1 .. ArrayLen(a) |-> a[k - 1]]]

TextAt(text, k) == text.period[(k % Len(text.period)) + 1]

\* occurrences of symbol c among the first i symbols of the text
CountPrefix(text, c, i) ==
    IF i = 0 THEN 0
    ELSE LET p == Len(text.period)
             inPeriod(m) == Cardinality({j \in 1 .. m : text.period[j] = c})
         IN  (i \div p) * inPeriod(p) + inPeriod(i % p)

\* occurrences of symbol c in text[lo .. hi)
CountRange(text, c, lo, hi) == CountPrefix(text, c, hi) - CountPrefix(text, c, lo)

\* bit p of a symbol
BitOf(symbol, p) == (symbol \div (2 ^ p)) % 2

NUM_BLOCK_OFFSET_BITS == 16

\* u16 arithmetic of the block offsets
WrapU16(v) == v % (2 ^ NUM_BLOCK_OFFSET_BITS)

Block64_NUM_BITS == 64

Block512_NUM_BITS == 512

BlockWidths == {Block64_NUM_BITS, Block512_NUM_BITS}

\* A block is the set of positions of its one-bits.
zeroes == {}

negate(block, NUM_BITS) == (0 .. NUM_BITS - 1) \ block

count_ones_before(block, idx) == Cardinality({b \in block : b < idx})

get_bit(block, idx) == IF idx \in block THEN 1 ELSE 0

ilog2_ceil_for_nonzero(value) ==
    CHOOSE k \in 0 .. 9 : 2 ^ k >= value /\ (k = 0 \/ 2 ^ (k - 1) < value)

\* u16::MAX + 1 symbols per superblock of the condensed structure
condensed_superblock_size == 65536

\* fill_superblock of the condensed structure, for the superblock sb of the text:
\* the indicator block of bit plane p for the block b of the superblock
condensed_fill_block(text, sb, b, p, NUM_BITS) ==
    LET start == sb * condensed_superblock_size + b * NUM_BITS
        chunk_end == Min(text.len, (sb + 1) * condensed_superblock_size)
    IN  {j \in 0 .. NUM_BITS - 1 : start + j < chunk_end /\ BitOf(TextAt(text, start + j), p) = 1}

\* the running u16 sum block_offsets_sum[c] once `upto` symbols of superblock sb are read
block_offsets_sum(text, sb, c, upto) ==
    LET start == sb * condensed_superblock_size
    IN  WrapU16(CountRange(text, c, start, Min(text.len, start + upto)))

\* block_offsets_sum[c] += 1 leaves the u16 range when one superblock holds 2^16
\* copies of one symbol: a panic with overflow checks, a wrap to 0 without
condensed_fill_overflows(text, alphabet_size) ==
    \E sb \in 0 .. div_ceil(text.len, condensed_superblock_size) - 1 :
        \E c \in 0 .. alphabet_size - 1 :
            CountRange(text, c, sb * condensed_superblock_size,
                       Min(text.len, (sb + 1) * condensed_superblock_size))
                >= 2 ^ NUM_BLOCK_OFFSET_BITS

\* a variant of fill_superblock without its last statement
blocks_never_overshoot(num_text_blocks, num_blocks) == FALSE

\* fill_superblock: the chunk has a block after the blocks of the text, whose offsets
\* are written after the loop
blocks_overshoot(num_text_blocks, num_blocks) == num_text_blocks < num_blocks

\* CondensedTextWithRankSupport::construct_from_maybe_slice_compressed_text, `text`
\* being the symbols that S::iter yields
condensed_construct_from_maybe_slice_compressed_text(text, uncompressed_text_len, alphabet_size, NUM_BITS) ==
    LET alphabet_num_bits == ilog2_ceil_for_nonzero(alphabet_size)
        len == text.len + 1
        num_blocks == div_ceil(len, NUM_BITS)
        num_indicator_blocks == num_blocks * alphabet_num_bits
        num_block_offsets == num_blocks * alphabet_size
        num_superblock_offsets == div_ceil(len, condensed_superblock_size) * alphabet_size
        blocks_per_superblock == condensed_superblock_size \div NUM_BITS
        \* the zip of the four chunk iterators ends with the text's chunks
        num_filled_superblocks == div_ceil(text.len, condensed_superblock_size)
        chunk_len(sb) == Min(text.len, (sb + 1) * condensed_superblock_size)
                            - sb * condensed_superblock_size
        text_blocks(sb) == div_ceil(chunk_len(sb), NUM_BITS)
        blocks_in_chunk(sb) == Min(num_blocks, (sb + 1) * blocks_per_superblock)
                                  - sb * blocks_per_superblock
        overshoot(sb) == blocks_overshoot(text_blocks(sb), blocks_in_chunk(sb))
    IN  [ encoding |-> "condensed",
          text_len |-> uncompressed_text_len,
          alphabet_size |-> alphabet_size,
          NUM_BITS |-> NUM_BITS,
          interleaved_blocks |->
            [k \in 0 .. num_indicator_blocks - 1 |->
                LET blk == k \div alphabet_num_bits
                    sb == blk \div blocks_per_superblock
                    b == blk % blocks_per_superblock
                IN  IF sb < num_filled_superblocks /\ b < text_blocks(sb)
                    THEN condensed_fill_block(text, sb, b, k % alphabet_num_bits, NUM_BITS)
                    ELSE zeroes],
          interleaved_block_offsets |->
            [k \in 0 .. num_block_offsets - 1 |->
                LET blk == k \div alphabet_size
                    sb == blk \div blocks_per_superblock
                    b == blk % blocks_per_superblock
                IN  IF sb >= num_filled_superblocks THEN 0
                    ELSE IF b < text_blocks(sb)
                    THEN block_offsets_sum(text, sb, k % alphabet_size, b * NUM_BITS)
                    ELSE IF overshoot(sb) /\ b = blocks_in_chunk(sb) - 1
                    THEN block_offsets_sum(text, sb, k % alphabet_size, chunk_len(sb))
                    ELSE 0],
          interleaved_superblock_offsets |->
            [k \in 0 .. num_superblock_offsets - 1 |->
                CountPrefix(text, k % alphabet_size,
                            Min(text.len, (k \div alphabet_size) * condensed_superblock_size))] ]

\* CondensedTextWithRankSupport::construct
condensed_construct(text, alphabet_size, NUM_BITS) ==
    condensed_construct_from_maybe_slice_compressed_text(text, text.len, alphabet_size, NUM_BITS)

\* a structure's scalar fields are read as twrs["field"], which leaves its arrays
\* unevaluated until one of their elements is read
condensed_superblock_offset_idx(twrs, symbol, idx) ==
    (idx \div condensed_superblock_size) * twrs["alphabet_size"] + symbol

condensed_block_offset_idx(twrs, symbol, idx) ==
    (idx \div twrs["NUM_BITS"]) * twrs["alphabet_size"] + symbol

\* first index of the block range of idx
condensed_block_range(twrs, idx) ==
    (idx \div twrs["NUM_BITS"]) * ilog2_ceil_for_nonzero(twrs["alphabet_size"])

\* a plane's block, negated when the symbol's bit in that plane is 0
PlaneBlock(twrs, first, p, symbol) ==
    IF BitOf(symbol, p) = 0
    THEN negate(twrs.interleaved_blocks[first + p], twrs["NUM_BITS"])
    ELSE twrs.interleaved_blocks[first + p]

\* CondensedTextWithRankSupport::rank_unchecked
condensed_rank_unchecked(twrs, symbol, idx) ==
    LET superblock_offset ==
            twrs.interleaved_superblock_offsets[condensed_superblock_offset_idx(twrs, symbol, idx)]
        block_offset ==
            twrs.interleaved_block_offsets[condensed_block_offset_idx(twrs, symbol, idx)]
        first == condensed_block_range(twrs, idx)
        alphabet_num_bits == ilog2_ceil_for_nonzero(twrs["alphabet_size"])
        \* accumulator_block.set_to_self_and(block) over the planes 1 .. p
        RECURSIVE accumulate(_)
        accumulate(p) ==
            IF p = 0 THEN PlaneBlock(twrs, first, 0, symbol)
            ELSE accumulate(p - 1) \cap PlaneBlock(twrs, first, p, symbol)
        accumulator_block == accumulate(alphabet_num_bits - 1)
        index_in_block == idx % twrs["NUM_BITS"]
    IN  superblock_offset + block_offset + count_ones_before(accumulator_block, index_in_block)

\* CondensedTextWithRankSupport::symbol_at (asserts idx < text_len)
condensed_symbol_at(twrs, idx) ==
    LET alphabet_num_bits == ilog2_ceil_for_nonzero(twrs["alphabet_size"])
        blocks_start == (idx \div twrs["NUM_BITS"]) * alphabet_num_bits
        index_in_block == idx % twrs["NUM_BITS"]
    IN  SeqSum([p \in 1 .. alphabet_num_bits |->
                get_bit(twrs.interleaved_blocks[blocks_start + p - 1], index_in_block)
                    * (2 ^ (p - 1))])

\* Block::integrate_block_offset_assuming_zero: the word holding the offset is overwritten
integrate_block_offset_assuming_zero(block_offset) ==
    {b \in 0 .. 30 : BitOf(block_offset, b) = 1}

\* Block::extract_block_offset_and_then_zeroize_it: the value of the low 16 bits ...
extract_block_offset(block) ==
    LET low == {b \in block : b < NUM_BLOCK_OFFSET_BITS}
        RECURSIVE value(_)
        value(S) == IF S = {} THEN 0
                    ELSE LET b == CHOOSE x \in S : TRUE IN 2 ^ b + value(S \ {b})
    IN  value(low)

\* ... and the block with these bits cleared
zeroize_block_offset(block) == {b \in block : b >= NUM_BLOCK_OFFSET_BITS}

\* FlatTextWithRankSupport: the superblock size, a multiple of the used bits per block
flat_superblock_size(NUM_BITS) ==
    ((2 ^ NUM_BLOCK_OFFSET_BITS) \div (NUM_BITS - NUM_BLOCK_OFFSET_BITS))
        * (NUM_BITS - NUM_BLOCK_OFFSET_BITS)

\* fill_superblock of the flat structure: the block of symbol c for block b of superblock sb,
\* its low bits holding the offset, the bit 16 + j set where the text has c
flat_fill_block(text, sb, b, c, NUM_BITS) ==
    LET used_bits_per_block == NUM_BITS - NUM_BLOCK_OFFSET_BITS
        sb_start == sb * flat_superblock_size(NUM_BITS)
        start == sb_start + b * used_bits_per_block
        chunk_end == Min(text.len, sb_start + flat_superblock_size(NUM_BITS))
    IN  integrate_block_offset_assuming_zero(CountRange(text, c, sb_start, Min(start, chunk_end)))
        \cup {NUM_BLOCK_OFFSET_BITS + j : j \in
                {i \in 0 .. used_bits_per_block - 1 :
                    start + i < chunk_end /\ TextAt(text, start + i) = c}}

\* FlatTextWithRankSupport::construct_from_maybe_slice_compressed_text, `text` being
\* the symbols that S::iter yields
flat_construct_from_maybe_slice_compressed_text(text, uncompressed_text_len, alphabet_size, NUM_BITS) ==
    LET used_bits_per_block == NUM_BITS - NUM_BLOCK_OFFSET_BITS
        superblock_size == flat_superblock_size(NUM_BITS)
        len == text.len + 1
        num_blocks == div_ceil(len, used_bits_per_block)
        num_indicator_blocks == num_blocks * alphabet_size
        num_superblock_offsets == div_ceil(len, superblock_size) * alphabet_size
        blocks_per_superblock == superblock_size \div used_bits_per_block
        num_filled_superblocks == div_ceil(text.len, superblock_size)
        chunk_len(sb) == Min(text.len, (sb + 1) * superblock_size) - sb * superblock_size
        text_blocks(sb) == div_ceil(chunk_len(sb), used_bits_per_block)
        blocks_in_chunk(sb) == Min(num_blocks, (sb + 1) * blocks_per_superblock)
                                  - sb * blocks_per_superblock
        overshoot(sb) == blocks_overshoot(text_blocks(sb), blocks_in_chunk(sb))
    IN  [ encoding |-> "flat",
          text_len |-> uncompressed_text_len,
          alphabet_size |-> alphabet_size,
          NUM_BITS |-> NUM_BITS,
          superblock_size |-> superblock_size,
          interleaved_blocks |->
            [k \in 0 .. num_indicator_blocks - 1 |->
                LET blk == k \div alphabet_size
                    sb == blk \div blocks_per_superblock
                    b == blk % blocks_per_superblock
                IN  IF sb >= num_filled_superblocks THEN zeroes
                    ELSE IF b < text_blocks(sb)
                         \/ (overshoot(sb) /\ b = blocks_in_chunk(sb) - 1)
                    THEN flat_fill_block(text, sb, b, k % alphabet_size, NUM_BITS)
                    ELSE zeroes],
          interleaved_superblock_offsets |->
            [k \in 0 .. num_superblock_offsets - 1 |->
                CountPrefix(text, k % alphabet_size,
                            Min(text.len, (k \div alphabet_size) * superblock_size))] ]

\* FlatTextWithRankSupport::construct
flat_construct(text, alphabet_size, NUM_BITS) ==
    flat_construct_from_maybe_slice_compressed_text(text, text.len, alphabet_size, NUM_BITS)

flat_superblock_offset_idx(twrs, symbol, idx) ==
    (idx \div twrs["superblock_size"]) * twrs["alphabet_size"] + symbol

flat_block_idx(twrs, symbol, idx) ==
    (idx \div (twrs["NUM_BITS"] - NUM_BLOCK_OFFSET_BITS)) * twrs["alphabet_size"] + symbol

flat_idx_in_block(twrs, idx) == idx % (twrs["NUM_BITS"] - NUM_BLOCK_OFFSET_BITS)

\* FlatTextWithRankSupport::rank_unchecked
flat_rank_unchecked(twrs, symbol, idx) ==
    LET superblock_offset ==
            twrs.interleaved_superblock_offsets[flat_superblock_offset_idx(twrs, symbol, idx)]
        block == twrs.interleaved_blocks[flat_block_idx(twrs, symbol, idx)]
        block_offset == extract_block_offset(block)
        block_count == count_ones_before(zeroize_block_offset(block),
                                         flat_idx_in_block(twrs, idx) + NUM_BLOCK_OFFSET_BITS)
    IN  superblock_offset + block_offset + block_count

\* FlatTextWithRankSupport::symbol_at: the first symbol whose block has the bit set
flat_symbol_at(twrs, idx) ==
    LET blocks_start == (idx \div (twrs["NUM_BITS"] - NUM_BLOCK_OFFSET_BITS)) * twrs["alphabet_size"]
        index_in_block == flat_idx_in_block(twrs, idx) + NUM_BLOCK_OFFSET_BITS
        hits == {i \in 0 .. twrs["alphabet_size"] - 1 :
                    get_bit(twrs.interleaved_blocks[blocks_start + i], index_in_block) = 1}
    IN  CHOOSE i \in hits : \A j \in hits : i <= j

\* the implementations of TextWithRankSupport
Encodings == {"condensed", "flat"}

\* TextWithRankSupport::construct
construct(encoding, text, alphabet_size, NUM_BITS) ==
    IF encoding = "condensed"
    THEN condensed_construct(text, alphabet_size, NUM_BITS)
    ELSE flat_construct(text, alphabet_size, NUM_BITS)

\* R::construct_from_maybe_slice_compressed_text on the symbols of the slice
construct_from_maybe_slice_compressed_text(encoding, text, uncompressed_text_len, alphabet_size, NUM_BITS) ==
    IF encoding = "condensed"
    THEN condensed_construct_from_maybe_slice_compressed_text(
             text, uncompressed_text_len, alphabet_size, NUM_BITS)
    ELSE flat_construct_from_maybe_slice_compressed_text(
             text, uncompressed_text_len, alphabet_size, NUM_BITS)

rank_unchecked(twrs, symbol, idx) ==
    IF twrs["encoding"] = "condensed"
    THEN condensed_rank_unchecked(twrs, symbol, idx)
    ELSE flat_rank_unchecked(twrs, symbol, idx)

\* TextWithRankSupport::rank: asserts symbol < alphabet_size and idx <= text_len
rank_is_safe(twrs, symbol, idx) == symbol < twrs["alphabet_size"] /\ idx <= twrs["text_len"]

symbol_at(twrs, idx) ==
    IF twrs["encoding"] = "condensed"
    THEN condensed_symbol_at(twrs, idx)
    ELSE flat_symbol_at(twrs, idx)

\* ---------------------------------------------------- sampled suffix array
\* SampledSuffixArray::new_uncompressed: the entries at the rows i with i % rate = 0
new_uncompressed(suffix_array, sampling_rate, text_border_lookup) ==
    [ suffix_array_data |->
        [w \in 0 .. div_ceil(ArrayLen(suffix_array), sampling_rate) - 1 |->
            suffix_array[w * sampling_rate]],
      text_border_lookup |-> text_border_lookup,
      sampling_rate |-> sampling_rate ]

\* ------------------------------------------------------ text id search tree
is_power_of_two(n) == \E k \in 0 .. 9 : 2 ^ k = n

next_power_of_two(n) == 2 ^ ilog2_ceil_for_nonzero(n)

left_child_index(curr_node_index) == curr_node_index * 2 + 1

right_child_index(curr_node_index) == (curr_node_index + 1) * 2

\* Node: an inner node holds its threshold, a leaf the bitwise complement of its text id
new_inner(threshold) == threshold

new_leaf(text_id) == -text_id - 1

is_inner(node) == node >= 0

get_text_id_for_leaf(node) == -node - 1

\* a variant whose inner nodes hold the first index of the right half as threshold
RECURSIVE add_nodes_with_threshold_of_right(_, _, _)
add_nodes_with_threshold_of_right(curr_node_index, indices, indices_offset) ==
    LET num_indices == Len(indices)
        curr_offset == IF is_power_of_two(num_indices)
                       THEN num_indices \div 2
                       ELSE next_power_of_two(num_indices) \div 2
        left == SubSeq(indices, 1, curr_offset)
        right == SubSeq(indices, curr_offset + 1, num_indices)
    IN  IF num_indices = 1
        THEN {<<curr_node_index, new_leaf(indices_offset)>>}
        ELSE {<<curr_node_index, new_inner(right[1])>>}
             \cup add_nodes_with_threshold_of_right(left_child_index(curr_node_index), left,
                                                    indices_offset)
             \cup add_nodes_with_threshold_of_right(right_child_index(curr_node_index), right,
                                                    indices_offset + curr_offset)

\* add_nodes: the <<node index, node>> pairs written for the sorted `indices`
RECURSIVE add_nodes(_, _, _)
add_nodes(curr_node_index, indices, indices_offset) ==
    LET num_indices == Len(indices)
        curr_offset == IF is_power_of_two(num_indices)
                       THEN num_indices \div 2
                       ELSE next_power_of_two(num_indices) \div 2
        left == SubSeq(indices, 1, curr_offset)
        right == SubSeq(indices, curr_offset + 1, num_indices)
    IN  IF num_indices = 1
        THEN {<<curr_node_index, new_leaf(indices_offset)>>}
        ELSE {<<curr_node_index, new_inner(left[Len(left)])>>}
             \cup add_nodes(left_child_index(curr_node_index), left, indices_offset)
             \cup add_nodes(right_child_index(curr_node_index), right,
                            indices_offset + curr_offset)

\* TexdIdSearchTree::new_from_sentinel_indices
new_from_sentinel_indices(sentinels) ==
    LET written == add_nodes(0, [k \in 1 .. ArrayLen(sentinels) |-> sentinels[k - 1]], 0)
        max_index_used == CHOOSE m \in {w[1] : w \in written} :
                              \A w \in written : w[1] <= m
    IN  [ nodes |-> [i \in 0 .. max_index_used |->
                        IF \E w \in written : w[1] = i
                        THEN (CHOOSE w \in written : w[1] = i)[2]
                        ELSE new_inner(0)],
          sentinel_indices |-> sentinels ]

\* a variant that sends an index equal to the threshold to the right child
RECURSIVE lookup_text_id_from_strict_threshold(_, _, _)
lookup_text_id_from_strict_threshold(tree, curr_node_index, concatenated_text_index) ==
    IF is_inner(tree.nodes[curr_node_index])
    THEN lookup_text_id_from_strict_threshold(tree,
            IF concatenated_text_index < tree.nodes[curr_node_index]
            THEN left_child_index(curr_node_index)
            ELSE right_child_index(curr_node_index),
            concatenated_text_index)
    ELSE get_text_id_for_leaf(tree.nodes[curr_node_index])

RECURSIVE lookup_text_id_from(_, _, _)
lookup_text_id_from(tree, curr_node_index, concatenated_text_index) ==
    IF is_inner(tree.nodes[curr_node_index])
    THEN lookup_text_id_from(tree,
            IF concatenated_text_index <= tree.nodes[curr_node_index]
            THEN left_child_index(curr_node_index)
            ELSE right_child_index(curr_node_index),
            concatenated_text_index)
    ELSE get_text_id_for_leaf(tree.nodes[curr_node_index])

lookup_text_id(tree, concatenated_text_index) ==
    lookup_text_id_from(tree, 0, concatenated_text_index)

\* a variant that forgets to step over the sentinel of the text before
backtransfrom_counting_the_sentinel(tree, concatenated_text_index) ==
    LET text_id == lookup_text_id(tree, concatenated_text_index)
    IN  << text_id,
           IF text_id = 0 THEN concatenated_text_index
           ELSE concatenated_text_index - tree.sentinel_indices[text_id - 1] >>

\* backtransfrom_concatenated_text_index: <<text id, position in that text>>
backtransfrom_concatenated_text_index(tree, concatenated_text_index) ==
    LET text_id == lookup_text_id(tree, concatenated_text_index)
    IN  << text_id,
           IF text_id = 0 THEN concatenated_text_index
           ELSE concatenated_text_index - tree.sentinel_indices[text_id - 1] - 1 >>

\* ------------------------------------------------------------ the FM-index
HalfOpenInterval(start, end) == [start |-> start, end |-> end]

\* Cursor::count / HalfOpenInterval length
interval_count(interval) == interval.end - interval.start

\* a variant that leaves the last sentinel out of the length
total_text_len_without_last_sentinel(index) == index.text_with_rank_support.text_len - 1

\* FmIndex::total_text_len
total_text_len(index) == index.text_with_rank_support.text_len

\* FmIndex::lf_mapping_step
lf_mapping_step(index, symbol, idx) ==
    index.count[symbol] + rank_unchecked(index.text_with_rank_support, symbol, idx)

\* a variant that steps on an empty interval too
extend_front_stepping_on_empty(index, interval, symbol) ==
    HalfOpenInterval(lf_mapping_step(index, symbol, interval.start),
                     lf_mapping_step(index, symbol, interval.end))

\* Cursor::extend_front_without_alphabet_translation
extend_front_without_alphabet_translation(index, interval, symbol) ==
    IF interval.start # interval.end
    THEN HalfOpenInterval(lf_mapping_step(index, symbol, interval.start),
                          lf_mapping_step(index, symbol, interval.end))
    ELSE interval

\* LookupTables::max_depth
max_depth(lookup_tables) == ArrayLen(lookup_tables.tables) - 1

\* a variant that hands the front of the query to the lookup table
split_query_at_front(index, query) ==
    LET lookup_depth == Min(Len(query), max_depth(index.lookup_tables))
    IN  << SubSeq(query, lookup_depth + 1, Len(query)), SubSeq(query, 1, lookup_depth) >>

\* FmIndex::split_query_for_lookup: <<remaining_query, query_suffix>>
split_query_for_lookup(index, query) ==
    LET lookup_depth == Min(Len(query), max_depth(index.lookup_tables))
        suffix_idx == Len(query) - lookup_depth
    IN  << SubSeq(query, 1, suffix_idx), SubSeq(query, suffix_idx + 1, Len(query)) >>

\* a variant that zips the symbols with the factors from the greatest factor down
compute_lookup_idx_greatest_factor_first(lookup_tables, query_suffix) ==
    SeqSum([j \in 1 .. Len(query_suffix) |->
                (query_suffix[j] - 1) * lookup_tables.factors[Len(query_suffix) - j]])

\* compute_lookup_idx_without_alphabet_transition: the symbols zipped with the factors
compute_lookup_idx_without_alphabet_transition(lookup_tables, query_suffix) ==
    SeqSum([j \in 1 .. Len(query_suffix) |->
                (query_suffix[j] - 1) * lookup_tables.factors[j - 1]])

\* compute_lookup_idx (every byte of the suffix is in the alphabet)
compute_lookup_idx(lookup_tables, query_suffix) ==
    SeqSum([j \in 1 .. Len(query_suffix) |->
                (io_to_dense_representation(query_suffix[j]) - 1)
                    * lookup_tables.factors[j - 1]])

\* LookupTable::lookup indexes data[idx]: a panic when idx is past the table
lookup_idx_in_bounds(lookup_tables, depth, idx) ==
    idx < ArrayLen(lookup_tables.tables[depth])

\* LookupTables::lookup_idx
lookup_idx(lookup_tables, depth, idx) == lookup_tables.tables[depth][idx]

\* the loop of cursor_for_query_without_alphabet_translation over the remaining symbols
RECURSIVE extend_over_remaining_dense(_, _, _)
extend_over_remaining_dense(index, remaining_query, interval) ==
    IF remaining_query = <<>> THEN interval
    ELSE LET next == extend_front_without_alphabet_translation(
                        index, interval, remaining_query[Len(remaining_query)])
         IN  IF interval_count(next) = 0 THEN next
             ELSE extend_over_remaining_dense(
                     index, SubSeq(remaining_query, 1, Len(remaining_query) - 1), next)

\* FmIndex::cursor_for_query_without_alphabet_translation, the interval of its cursor
cursor_for_query_without_alphabet_translation(index, query) ==
    LET split == split_query_for_lookup(index, query)
        idx == compute_lookup_idx_without_alphabet_transition(index.lookup_tables, split[2])
    IN  extend_over_remaining_dense(index, split[1],
                                    lookup_idx(index.lookup_tables, Len(split[2]), idx))

\* a variant that reads the digits of idx from the most significant one
lookup_word_big_endian(idx, depth, num_symbols) ==
    [j \in 1 .. depth |-> ((idx \div (num_symbols ^ (depth - j))) % num_symbols) + 1]

\* the word fill_table stores at idx: symbol j is digit j of idx, plus 1 for the sentinel
lookup_word(idx, depth, num_symbols) ==
    [j \in 1 .. depth |-> ((idx \div (num_symbols ^ (j - 1))) % num_symbols) + 1]

\* LookupTable::new with fill_table: one interval per word of `depth` searchable symbols
LookupTable_new(depth, num_symbols, index) ==
    [idx \in 0 .. (num_symbols ^ depth) - 1 |->
        IF depth = 0
        THEN HalfOpenInterval(0, total_text_len(index))
        ELSE cursor_for_query_without_alphabet_translation(
                index, lookup_word(idx, depth, num_symbols))]

\* fill_lookup_tables: the tables of depth 0 .. depth, each filled with the ones before it
RECURSIVE filled_tables(_, _, _)
filled_tables(index, factors, depth) ==
    LET num_symbols == num_searchable_dense_symbols
        before == IF depth = 0 THEN <<>> ELSE filled_tables(index, factors, depth - 1)
        so_far == [index EXCEPT !.lookup_tables =
                    [num_symbols |-> num_symbols, factors |-> factors, tables |-> before]]
    IN  (depth :> LookupTable_new(depth, num_symbols, so_far)) @@ before

fill_lookup_tables(index, lookup_table_depth) ==
    LET factors == [e \in 0 .. lookup_table_depth |-> num_searchable_dense_symbols ^ e]
    IN  [index EXCEPT !.lookup_tables =
            [ num_symbols |-> num_searchable_dense_symbols,
              factors |-> factors,
              tables |-> filled_tables(index, factors, lookup_table_depth) ]]

\* FmIndex::new over construction::create_data_structures
FmIndex_new(texts, sampling_rate, lookup_table_depth, encoding, NUM_BITS) ==
    LET text == concatenated_text(texts)
        sa == construct_libsais_suffix_array(text)
        bwt == bwt_from_suffix_array(sa, text)
    IN  fill_lookup_tables(
            [ count |-> frequency_table_to_count(frequency_table(texts), num_dense_symbols),
              text_with_rank_support |->
                  construct(encoding, TextOfArray(bwt), num_dense_symbols, NUM_BITS),
              suffix_array |->
                  new_uncompressed(sa, sampling_rate, text_border_lookup_of(sa, bwt)),
              text_ids |-> new_from_sentinel_indices(sentinel_indices(texts)),
              lookup_tables |-> [num_symbols |-> 0, factors |-> <<>>, tables |-> <<>>] ],
            lookup_table_depth)

\* How a call ends: it returns, or it panics on a byte that is not in the alphabet
\* (io_to_dense_representation), or on an index past the end of a slice.
Returned == "returned"

BadSymbol == "BadSymbol"

OutOfBounds == "index out of bounds"

NoInterval == HalfOpenInterval(0, 0)

CursorResult(outcome, interval) == [outcome |-> outcome, interval |-> interval]

\* Cursor::extend_query_front: translate the byte, then one LF step on both borders
extend_query_front(index, interval, symbol) ==
    IF try_io_to_dense_representation(symbol) = 0
    THEN CursorResult(BadSymbol, NoInterval)
    ELSE CursorResult(Returned,
            extend_front_without_alphabet_translation(
                index, interval, io_to_dense_representation(symbol)))

\* a variant of the loop that goes on when the interval is empty
RECURSIVE extend_over_remaining_without_break(_, _, _)
extend_over_remaining_without_break(index, remaining_query, interval) ==
    IF remaining_query = <<>> THEN CursorResult(Returned, interval)
    ELSE LET next == extend_query_front(index, interval,
                                        remaining_query[Len(remaining_query)])
         IN  IF next.outcome # Returned THEN next
             ELSE extend_over_remaining_without_break(
                     index, SubSeq(remaining_query, 1, Len(remaining_query) - 1),
                     next.interval)

\* the loop of cursor_for_query over the remaining bytes, right to left
RECURSIVE extend_over_remaining(_, _, _)
extend_over_remaining(index, remaining_query, interval) ==
    IF remaining_query = <<>> THEN CursorResult(Returned, interval)
    ELSE LET next == extend_query_front(index, interval,
                                        remaining_query[Len(remaining_query)])
         IN  IF next.outcome # Returned THEN next
             ELSE IF interval_count(next.interval) = 0 THEN next
             ELSE extend_over_remaining(
                     index, SubSeq(remaining_query, 1, Len(remaining_query) - 1),
                     next.interval)

\* LookupTables::lookup
lookup(lookup_tables, query_suffix) ==
    IF \E j \in 1 .. Len(query_suffix) : try_io_to_dense_representation(query_suffix[j]) = 0
    THEN CursorResult(BadSymbol, NoInterval)
    ELSE LET idx == compute_lookup_idx(lookup_tables, query_suffix)
         IN  IF lookup_idx_in_bounds(lookup_tables, Len(query_suffix), idx)
             THEN CursorResult(Returned, lookup_idx(lookup_tables, Len(query_suffix), idx))
             ELSE CursorResult(OutOfBounds, NoInterval)

\* FmIndex::cursor_for_query
cursor_for_query(index, query) ==
    LET split == split_query_for_lookup(index, query)
        jump == lookup(index.lookup_tables, split[2])
    IN  IF jump.outcome # Returned THEN jump
        ELSE extend_over_remaining(index, split[1], jump.interval)

\* a variant whose interval ends one row after the last
cursor_empty_with_one_more_row(index) == HalfOpenInterval(0, total_text_len(index) + 1)

\* FmIndex::cursor_empty
cursor_empty(index) == HalfOpenInterval(0, total_text_len(index))

\* a variant of the walk that steps through sentinel rows
RECURSIVE recover_through_sentinels(_, _, _)
recover_through_sentinels(index, i, num_steps_done) ==
    IF i % index.suffix_array.sampling_rate # 0
    THEN recover_through_sentinels(index,
            lf_mapping_step(index, symbol_at(index.text_with_rank_support, i), i),
            num_steps_done + 1)
    ELSE index.suffix_array.suffix_array_data[i \div index.suffix_array.sampling_rate]
            + num_steps_done

\* SampledSuffixArray::recover_range for one row: walk back to a sampled row or a border
RECURSIVE recover(_, _, _)
recover(index, i, num_steps_done) ==
    IF i % index.suffix_array.sampling_rate # 0
    THEN LET bwt_symbol == symbol_at(index.text_with_rank_support, i)
         IN  IF bwt_symbol = 0
             THEN index.suffix_array.text_border_lookup[i] + num_steps_done
             ELSE recover(index, lf_mapping_step(index, bwt_symbol, i), num_steps_done + 1)
    ELSE index.suffix_array.suffix_array_data[i \div index.suffix_array.sampling_rate]
            + num_steps_done

\* a variant of the iteration that steps through the rows of sentinels
recover_step_through_sentinels(index, walk) ==
    IF walk.i % index.suffix_array.sampling_rate # 0
    THEN [walk EXCEPT
            !.i = lf_mapping_step(index, symbol_at(index.text_with_rank_support, walk.i), walk.i),
            !.num_steps_done = @ + 1]
    ELSE [walk EXCEPT
            !.phase = "sampled",
            !.value = index.suffix_array.suffix_array_data[
                          walk.i \div index.suffix_array.sampling_rate] + walk.num_steps_done]

\* the closure of recover_range from the test of its while loop: one iteration, or
\* the return after the loop; text_border_lookup[&i] panics when the key is missing
recover_step(index, walk) ==
    IF walk.i % index.suffix_array.sampling_rate # 0
    THEN IF symbol_at(index.text_with_rank_support, walk.i) = 0
         THEN IF walk.i \in DOMAIN index.suffix_array.text_border_lookup
              THEN [walk EXCEPT
                      !.phase = "border",
                      !.value = index.suffix_array.text_border_lookup[walk.i]
                                    + walk.num_steps_done]
              ELSE [walk EXCEPT !.phase = "panicked"]
         ELSE [walk EXCEPT
                 !.i = lf_mapping_step(index,
                           symbol_at(index.text_with_rank_support, walk.i), walk.i),
                 !.num_steps_done = @ + 1]
    ELSE [walk EXCEPT
            !.phase = "sampled",
            !.value = index.suffix_array.suffix_array_data[
                          walk.i \div index.suffix_array.sampling_rate] + walk.num_steps_done]

\* SampledSuffixArray::recover_range: the text index of every row of the range, in order
recover_range(index, start, end) ==
    [k \in 1 .. end - start |-> recover(index, start + k - 1, 0)]

Hit(text_id, position) == [text_id |-> text_id, position |-> position]

\* FmIndex::locate_interval: the hits in the order the iterator yields them
locate_interval(index, interval) ==
    LET idxs == recover_range(index, interval.start, interval.end)
    IN  [k \in 1 .. Len(idxs) |->
            LET pair == backtransfrom_concatenated_text_index(index.text_ids, idxs[k])
            IN  Hit(pair[1], pair[2])]

\* ------------------------------------------------------ the batched engine
\* const BATCH_SIZE of lib.rs, the N of BatchComputedCursors
BATCH_SIZE == 64

Slots == 0 .. BATCH_SIZE - 1

\* an array of BATCH_SIZE slots filled from a function of the slot; the array is kept
\* as the sequence of its slots, slot 0 first
array_from_fn(f) == [s \in 1 .. BATCH_SIZE |-> f[s - 1]] \o <<>>

\* array[i]
slot(array, i) == array[i + 1]

\* Option<Q>: None, or Some(query)
None == <<>>

Some(query) == <<query>>

\* the assertion of replace_many_interval_borders_with_ranks fails
NotSafe == "assertion failed: is_safe"

\* Buffers::new; buffer1 .. buffer4 are scratch space, written before they are read
\* inside one step, and are left out
Buffers_new ==
    [intervals |-> array_from_fn([i \in Slots |-> HalfOpenInterval(0, 0)]),
     queries |-> array_from_fn([i \in Slots |-> None]),
     query_at_idx |-> array_from_fn([i \in Slots |-> 0]),
     symbols |-> array_from_fn([i \in Slots |-> 0])]

\* Body of the value, the value computed once
Bind(value, Body(_)) == CHOOSE result \in {Body(bound) : bound \in {value}} : TRUE

\* slice::swap
swap(array, i, j) ==
    [array EXCEPT ![i + 1] = slot(array, j), ![j + 1] = slot(array, i)]

\* the pull loop of compute_next_batch: up to BATCH_SIZE queries leave the iterator
pull_queries(buffers, queries_iter) ==
    LET curr_batch_size == Min(BATCH_SIZE, Len(queries_iter))
    IN  [buffers |->
            [buffers EXCEPT
                !.queries = array_from_fn([i \in Slots |->
                    IF i < curr_batch_size THEN Some(queries_iter[i + 1]) ELSE slot(@, i)]),
                !.query_at_idx = array_from_fn([i \in Slots |-> IF i < curr_batch_size THEN i ELSE slot(@, i)])],
         curr_batch_size |-> curr_batch_size,
         queries_iter |-> SubSeq(queries_iter, curr_batch_size + 1, Len(queries_iter))]

\* the lookup suffix of the query in a slot
lookup_suffix(index, buffers, i) == split_query_for_lookup(index, slot(buffers.queries, i)[1])[2]

\* batched_lookup_jumps: compute_lookup_idx for every slot of the batch, then
\* lookup_idx_many writes the intervals
batched_lookup_jumps(index, buffers, curr_batch_size) ==
    LET batch == 0 .. curr_batch_size - 1
        jump(i) == lookup(index.lookup_tables, lookup_suffix(index, buffers, i))
    IN  IF \E i \in batch : jump(i).outcome = BadSymbol
        THEN [outcome |-> BadSymbol, buffers |-> buffers]
        ELSE IF \E i \in batch : jump(i).outcome = OutOfBounds
        THEN [outcome |-> OutOfBounds, buffers |-> buffers]
        ELSE [outcome |-> Returned,
              buffers |-> [buffers EXCEPT !.intervals =
                  array_from_fn([i \in Slots |-> IF i \in batch THEN jump(i).interval ELSE slot(@, i)])]]

\* the query in slot i is unfinished: bytes are left and its interval is not empty
is_unfinished(buffers, i, next_idx_in_queries) ==
    /\ slot(buffers.queries, i) # None
    /\ Len(slot(buffers.queries, i)[1]) > next_idx_in_queries
    /\ slot(buffers.intervals, i).start # slot(buffers.intervals, i).end

\* a variant that goes on to the next slot after a swap, without looking at the query
\* the swap brought in
move_finished_step_skipping_the_swapped_in(loop, next_idx_in_queries) ==
    IF loop.i >= loop.num_remaining_unfinished_queries THEN loop
    ELSE IF is_unfinished(loop.buffers, loop.i, next_idx_in_queries)
    THEN [loop EXCEPT !.i = @ + 1]
    ELSE LET j == loop.num_remaining_unfinished_queries - 1
         IN  [loop EXCEPT !.buffers = [@ EXCEPT !.queries = swap(@, loop.i, j),
                                                !.intervals = swap(@, loop.i, j),
                                                !.query_at_idx = swap(@, loop.i, j)],
                          !.i = @ + 1,
                          !.num_remaining_unfinished_queries = j]

\* a variant that swaps a finished query to the end and keeps the count
move_finished_step_keeping_the_count(loop, next_idx_in_queries) ==
    IF loop.i >= loop.num_remaining_unfinished_queries THEN loop
    ELSE IF is_unfinished(loop.buffers, loop.i, next_idx_in_queries)
    THEN [loop EXCEPT !.i = @ + 1]
    ELSE LET j == loop.num_remaining_unfinished_queries - 1
         IN  [loop EXCEPT !.buffers = [@ EXCEPT !.queries = swap(@, loop.i, j),
                                                !.intervals = swap(@, loop.i, j),
                                                !.query_at_idx = swap(@, loop.i, j)]]

\* one iteration of the while loop of move_finished_queries_to_end on the loop's
\* variables; nothing once i has reached num_remaining_unfinished_queries
move_finished_step(loop, next_idx_in_queries) ==
    IF loop.i >= loop.num_remaining_unfinished_queries THEN loop
    ELSE IF is_unfinished(loop.buffers, loop.i, next_idx_in_queries)
    THEN [loop EXCEPT !.i = @ + 1]
    ELSE LET j == loop.num_remaining_unfinished_queries - 1
         IN  [loop EXCEPT !.buffers = [@ EXCEPT !.queries = swap(@, loop.i, j),
                                                !.intervals = swap(@, loop.i, j),
                                                !.query_at_idx = swap(@, loop.i, j)],
                          !.num_remaining_unfinished_queries = j]

\* that many iterations of the loop, the first half of them and then the rest
RECURSIVE move_finished_loop(_, _, _)
move_finished_loop(loop, next_idx_in_queries, iterations) ==
    IF iterations = 0 THEN loop
    ELSE IF iterations = 1 THEN move_finished_step(loop, next_idx_in_queries)
    ELSE Bind(move_finished_loop(loop, next_idx_in_queries, iterations \div 2),
              LAMBDA half : move_finished_loop(half, next_idx_in_queries,
                                               iterations - iterations \div 2))

\* move_finished_queries_to_end: every iteration brings i and
\* num_remaining_unfinished_queries one closer, so the loop ends within
\* num_remaining_unfinished_queries iterations
move_finished_queries_to_end(buffers, next_idx_in_queries, num_remaining_unfinished_queries) ==
    LET at_end(loop) ==
            [buffers |-> loop.buffers,
             num_remaining_unfinished_queries |-> loop.num_remaining_unfinished_queries]
    IN  Bind(move_finished_loop(
                 [buffers |-> buffers, i |-> 0,
                  num_remaining_unfinished_queries |-> num_remaining_unfinished_queries],
                 next_idx_in_queries, num_remaining_unfinished_queries),
             at_end)

\* the assertion of replace_many_interval_borders_with_ranks, over all the slots
all_slots_safe(index, buffers) ==
    /\ \A i \in Slots : slot(buffers.symbols, i) < index.text_with_rank_support.alphabet_size
    /\ \A i \in Slots :
          /\ slot(buffers.intervals, i).start <= index.text_with_rank_support.text_len
          /\ slot(buffers.intervals, i).end <= index.text_with_rank_support.text_len

\* a variant that replaces the borders of every slot
replace_many_interval_borders_of_every_slot(index, buffers, num_remaining_unfinished_queries) ==
    [buffers EXCEPT !.intervals = array_from_fn([i \in Slots |->
        HalfOpenInterval(
            rank_unchecked(index.text_with_rank_support, slot(buffers.symbols, i), slot(@, i).start),
            rank_unchecked(index.text_with_rank_support, slot(buffers.symbols, i), slot(@, i).end))])]

\* replace_many_interval_borders_with_ranks_unchecked: both borders of the first
\* slots are replaced by the rank of the slot's symbol
replace_many_interval_borders_with_ranks(index, buffers, num_remaining_unfinished_queries) ==
    [buffers EXCEPT !.intervals = array_from_fn([i \in Slots |->
        IF i < num_remaining_unfinished_queries
        THEN HalfOpenInterval(
                rank_unchecked(index.text_with_rank_support, slot(buffers.symbols, i), slot(@, i).start),
                rank_unchecked(index.text_with_rank_support, slot(buffers.symbols, i), slot(@, i).end))
        ELSE slot(@, i)])]

\* the byte of the query in slot i that the round reads
next_query_byte(buffers, i, next_idx_in_queries) ==
    LET query == slot(buffers.queries, i)[1]
    IN  query[(Len(query) - next_idx_in_queries - 1) + 1]

\* batched_lf_mappings: translate one byte per unfinished query, rank both borders,
\* add the counts
batched_lf_mappings(index, buffers, next_idx_in_queries, num_remaining_unfinished_queries) ==
    LET active == 0 .. num_remaining_unfinished_queries - 1
        byte(i) == next_query_byte(buffers, i, next_idx_in_queries)
        add_counts(ranked_buffers) ==
            [ranked_buffers EXCEPT !.intervals = array_from_fn([i \in Slots |->
                IF i \in active
                THEN HalfOpenInterval(
                        slot(@, i).start + index.count[slot(ranked_buffers.symbols, i)],
                        slot(@, i).end + index.count[slot(ranked_buffers.symbols, i)])
                ELSE slot(@, i)])]
        rank_borders(translated) ==
            IF ~all_slots_safe(index, translated)
            THEN [outcome |-> NotSafe, buffers |-> translated]
            ELSE [outcome |-> Returned,
                  buffers |-> Bind(replace_many_interval_borders_with_ranks(
                                       index, translated, num_remaining_unfinished_queries),
                                   add_counts)]
    IN  IF \E i \in active : try_io_to_dense_representation(byte(i)) = 0
        THEN [outcome |-> BadSymbol, buffers |-> buffers]
        ELSE Bind([buffers EXCEPT !.symbols = array_from_fn([i \in Slots |->
                      IF i \in active THEN try_io_to_dense_representation(byte(i))
                      ELSE slot(@, i)])],
                  rank_borders)

\* the while loop of compute_next_batch: one batched LF round, then a compaction
RECURSIVE lf_rounds(_, _, _, _)
lf_rounds(index, buffers, next_idx_in_queries, num_remaining_unfinished_queries) ==
    LET count_round(rest) == [rest EXCEPT !.rounds = @ + 1]
        next_round(moved) ==
            Bind(lf_rounds(index, moved.buffers, next_idx_in_queries + 1,
                           moved.num_remaining_unfinished_queries),
                 count_round)
        compact(mapped) ==
            IF mapped.outcome # Returned
            THEN [outcome |-> mapped.outcome, buffers |-> mapped.buffers, rounds |-> 1]
            ELSE Bind(move_finished_queries_to_end(mapped.buffers, next_idx_in_queries + 1,
                                                   num_remaining_unfinished_queries),
                      next_round)
    IN  IF num_remaining_unfinished_queries = 0
        THEN [outcome |-> Returned, buffers |-> buffers, rounds |-> 0]
        ELSE Bind(batched_lf_mappings(index, buffers, next_idx_in_queries,
                                      num_remaining_unfinished_queries),
                  compact)

\* a variant that leaves the intervals in the order the compaction put them in
leave_queries_in_compacted_order(buffers, curr_batch_size) == buffers

\* one iteration of the while loop of move_queries_back_to_initial_order; nothing
\* once i has reached curr_batch_size
move_back_step(loop, curr_batch_size) ==
    IF loop.i >= curr_batch_size THEN loop
    ELSE LET j == slot(loop.buffers.query_at_idx, loop.i)
         IN  IF loop.i = j THEN [loop EXCEPT !.i = @ + 1]
             ELSE [loop EXCEPT !.buffers = [@ EXCEPT !.intervals = swap(@, loop.i, j),
                                                    !.query_at_idx = swap(@, loop.i, j)]]

\* that many iterations of the loop, the first half of them and then the rest
RECURSIVE move_back_loop(_, _, _)
move_back_loop(loop, curr_batch_size, iterations) ==
    IF iterations = 0 THEN loop
    ELSE IF iterations = 1 THEN move_back_step(loop, curr_batch_size)
    ELSE Bind(move_back_loop(loop, curr_batch_size, iterations \div 2),
              LAMBDA half : move_back_loop(half, curr_batch_size,
                                           iterations - iterations \div 2))

\* move_queries_back_to_initial_order: an iteration either advances i or puts one more
\* query into its slot, so the loop ends within 2 * curr_batch_size iterations
move_queries_back_to_initial_order(buffers, curr_batch_size) ==
    move_back_loop([buffers |-> buffers, i |-> 0], curr_batch_size,
                   2 * curr_batch_size).buffers

\* BatchComputedCursors::new
BatchComputedCursors_new(queries_iter) ==
    [next_idx_in_batch |-> 0, curr_batch_size |-> 0, queries_iter |-> queries_iter,
     buffers |-> Buffers_new, outcome |-> Returned]

\* compute_next_batch
compute_next_batch(index, self) ==
    LET next_idx_in_queries == max_depth(index.lookup_tables)
        pull(pulled) ==
            LET started == [self EXCEPT !.next_idx_in_batch = 0,
                                        !.curr_batch_size = pulled.curr_batch_size,
                                        !.queries_iter = pulled.queries_iter,
                                        !.buffers = pulled.buffers]
                search(searched) ==
                    IF searched.outcome # Returned
                    THEN [started EXCEPT !.outcome = searched.outcome,
                                         !.buffers = searched.buffers]
                    ELSE [started EXCEPT !.buffers = move_queries_back_to_initial_order(
                                                         searched.buffers,
                                                         pulled.curr_batch_size)]
                move(moved) ==
                    Bind(lf_rounds(index, moved.buffers, next_idx_in_queries,
                                   moved.num_remaining_unfinished_queries),
                         search)
                jump(jumped) ==
                    IF jumped.outcome # Returned
                    THEN [started EXCEPT !.outcome = jumped.outcome]
                    ELSE Bind(move_finished_queries_to_end(jumped.buffers, next_idx_in_queries,
                                                           pulled.curr_batch_size),
                              move)
            IN  Bind(batched_lookup_jumps(index, pulled.buffers, pulled.curr_batch_size), jump)
    IN  Bind(pull_queries(self.buffers, self.queries_iter), pull)

\* the iterator with its next batch computed, if the batch it holds is used up
batch_for_next(index, self) ==
    IF self.next_idx_in_batch = self.curr_batch_size
    THEN compute_next_batch(index, self)
    ELSE self

\* a variant of next that reads the slot after the increment, without the - 1
BatchComputedCursors_next_reading_slot_after(index, self) ==
    LET yield(computed) ==
            IF computed.outcome # Returned THEN << computed, None >>
            ELSE IF computed.curr_batch_size = 0 THEN << computed, None >>
            ELSE << [computed EXCEPT !.next_idx_in_batch = @ + 1],
                    Some(slot(computed.buffers.intervals,
                              (computed.next_idx_in_batch + 1) % BATCH_SIZE)) >>
    IN  Bind(batch_for_next(index, self), yield)

\* Iterator::next of BatchComputedCursors: <<the iterator afterwards, the item>>
BatchComputedCursors_next(index, self) ==
    LET yield(computed) ==
            IF computed.outcome # Returned THEN << computed, None >>
            ELSE IF computed.curr_batch_size = 0 THEN << computed, None >>
            ELSE << [computed EXCEPT !.next_idx_in_batch = @ + 1],
                    Some(slot(computed.buffers.intervals, computed.next_idx_in_batch)) >>
    IN  Bind(batch_for_next(index, self), yield)

\* --------------------------------------------------------- the state machine
VARIABLES
    texts,      \* the texts the index was built from
    index,      \* the FmIndex: count, text_with_rank_support, suffix_array, text_ids, lookup_tables
    call,       \* the call in progress on the index and what it produced
    cursors,    \* the iterator of a cursors_for_many_queries / count_many / locate_many call
    ranked      \* a rank structure under test and the last rank read from it

vars == <<texts, index, call, cursors, ranked>>

\* the non-empty lists of at most MaxTexts texts over TextBytes, MaxTotalLen bytes in total
TextLists ==
    {ts \in UNION {[1 .. m -> SeqsUpTo(TextBytes, MaxTotalLen)] : m \in 1 .. MaxTexts} :
        SeqSum([t \in 1 .. Len(ts) |-> Len(ts[t])]) <= MaxTotalLen}

Patterns == SeqsUpTo(PatternBytes, MaxPatLen)

NoCall ==
    [op |-> "none", query |-> <<>>, outcome |-> Returned, interval |-> NoInterval,
     count |-> 0, recovered |-> <<>>, hits |-> <<>>]

\* what a yielded cursor gives: its interval, its count, its hits
Item(interval, count, hits) == [interval |-> interval, count |-> count, hits |-> hits]

NoItem == Item(NoInterval, 0, <<>>)

\* no batched call was made
NoCursors ==
    [op |-> "none", queries |-> <<>>, single_outcomes |-> {},
     iter |-> BatchComputedCursors_new(<<>>),
     yielded |-> 0, done |-> FALSE, item |-> NoItem]

\* no rank structure is under test
NoRank == [op |-> "none"]

\* FmIndexConfig::construct_index with the default rank structure and priority
Init ==
    /\ texts \in TextLists
    /\ \E sampling_rate \in SamplingRates, lookup_table_depth \in LookupDepths :
          index = FmIndex_new(texts, sampling_rate, lookup_table_depth,
                              "condensed", Block64_NUM_BITS)
    /\ call = NoCall
    /\ cursors = NoCursors
    /\ ranked = NoRank

\* FmIndex::count
Count(query) ==
    /\ call.op = "none"
    /\ LET cursor == cursor_for_query(index, query)
       IN  call' = [op |-> "count", query |-> query, outcome |-> cursor.outcome,
                    interval |-> cursor.interval,
                    count |-> interval_count(cursor.interval), recovered |-> <<>>,
                    hits |-> <<>>]
    /\ UNCHANGED <<texts, index, cursors, ranked>>

\* FmIndex::locate, its iterator drained
Locate(query) ==
    /\ call.op = "none"
    /\ LET cursor == cursor_for_query(index, query)
       IN  call' = [op |-> "locate", query |-> query, outcome |-> cursor.outcome,
                    interval |-> cursor.interval,
                    count |-> 0,
                    recovered |-> recover_range(index, cursor.interval.start,
                                                cursor.interval.end),
                    hits |-> locate_interval(index, cursor.interval)]
    /\ UNCHANGED <<texts, index, cursors, ranked>>

\* FmIndex::cursor_for_query
CursorForQuery(query) ==
    /\ call.op = "none"
    /\ LET cursor == cursor_for_query(index, query)
       IN  call' = [op |-> "cursor_for_query", query |-> query, outcome |-> cursor.outcome,
                    interval |-> cursor.interval,
                    count |-> interval_count(cursor.interval), recovered |-> <<>>,
                    hits |-> <<>>]
    /\ UNCHANGED <<texts, index, cursors, ranked>>

\* FmIndex::cursor_empty
CursorEmpty ==
    /\ call.op = "none"
    /\ call' = [op |-> "cursor_empty", query |-> <<>>, outcome |-> Returned,
                interval |-> cursor_empty(index),
                count |-> interval_count(cursor_empty(index)), recovered |-> <<>>,
                hits |-> <<>>]
    /\ UNCHANGED <<texts, index, cursors, ranked>>

\* Cursor::extend_query_front on a cursor the caller holds
ExtendQueryFront(symbol) ==
    /\ call.op \in {"cursor_empty", "cursor_for_query", "extend_query_front"}
    /\ call.outcome = Returned
    /\ Len(call.query) < MaxExtensions
    /\ LET cursor == extend_query_front(index, call.interval, symbol)
       IN  call' = [op |-> "extend_query_front", query |-> <<symbol>> \o call.query,
                    outcome |-> cursor.outcome, interval |-> cursor.interval,
                    count |-> interval_count(cursor.interval), recovered |-> <<>>,
                    hits |-> <<>>]
    /\ UNCHANGED <<texts, index, cursors, ranked>>

\* Cursor::locate on a cursor the caller holds, its iterator drained
CursorLocate ==
    /\ call.op \in {"cursor_for_query", "cursor_empty", "extend_query_front"}
    /\ call.outcome = Returned
    /\ call' = [call EXCEPT !.op = "cursor_locate",
                            !.hits = locate_interval(index, call.interval)]
    /\ UNCHANGED <<texts, index, cursors, ranked>>

\* the caller is done with the result (or has caught the panic)
Return ==
    /\ call.op # "none"
    /\ call' = NoCall
    /\ UNCHANGED <<texts, index, cursors, ranked>>

Next ==
    \/ \E query \in Patterns : Count(query)
    \/ \E query \in Patterns : Locate(query)
    \/ \E query \in Patterns : CursorForQuery(query)
    \/ CursorEmpty
    \/ \E symbol \in PatternBytes : ExtendQueryFront(symbol)
    \/ CursorLocate
    \/ Return

Spec == Init /\ [][Next]_vars

\* ------------------------------------------- the batched engine's state machine
\* the longest query of a batched call
MaxBatchPatLen == 3

\* the bytes the queries of one batched call are made of: searchable ones, with the
\* non-searchable N, with a byte that is not in the alphabet
QueryAlphabets == { <<65, 67>>, <<65, 67, 78>>, <<65, 67, 78, 88>> }

\* the number of queries of a call: none, one, a batch less one, a batch, a batch and
\* one, two batches and two
QueryCounts == {0, 1, BATCH_SIZE - 1, BATCH_SIZE, BATCH_SIZE + 1, 2 * BATCH_SIZE + 2}

\* the n-th word over the bytes, shortest first: 0 is the empty word
RECURSIVE Word(_, _)
Word(bytes, n) ==
    IF n = 0 THEN <<>>
    ELSE << bytes[((n - 1) % Len(bytes)) + 1] >> \o Word(bytes, (n - 1) \div Len(bytes))

\* the number of words over b bytes of at most len bytes
RECURSIVE NumWords(_, _)
NumWords(b, len) == IF len = 0 THEN 1 ELSE 1 + b * NumWords(b, len - 1)

\* a query sequence: every stride-th word over the bytes, of mixed lengths
QuerySequence(bytes, num_queries, stride) ==
    [k \in 1 .. num_queries |->
        Word(bytes, ((k - 1) * stride) % NumWords(Len(bytes), MaxBatchPatLen))]

QuerySequences ==
    {QuerySequence(bytes, num_queries, stride) :
        bytes \in QueryAlphabets, num_queries \in QueryCounts, stride \in {1, MaxBatchPatLen + 1}}

\* the lists of MaxTexts texts of searchable upper and lower case bytes, none empty
\* and none shorter than the one before it, MaxTotalLen bytes in total
BatchTextLists ==
    {ts \in TextLists :
        /\ Len(ts) = MaxTexts
        /\ SeqSum([t \in 1 .. Len(ts) |-> Len(ts[t])]) = MaxTotalLen
        /\ \A t \in 1 .. Len(ts) :
              /\ ts[t] # <<>>
              /\ t > 1 => Len(ts[t - 1]) <= Len(ts[t])
              /\ \A k \in 1 .. Len(ts[t]) : ts[t][k] # 78}

\* how cursor_for_query ends on each query of the sequence taken alone, kept to
\* compare the batched call with
single_outcomes(idx, queries) ==
    {cursor_for_query(idx, queries[k]).outcome : k \in 1 .. Len(queries)}

BatchOps == {"cursors_for_many_queries", "count_many", "locate_many"}

\* an index and a call of cursors_for_many_queries, count_many or locate_many on it:
\* BatchComputedCursors::new, nothing computed yet
BatchInit ==
    /\ texts \in BatchTextLists
    /\ \E lookup_table_depth \in LookupDepths :
          index = FmIndex_new(texts, lookup_table_depth + 1, lookup_table_depth,
                              "condensed", Block64_NUM_BITS)
    /\ call = NoCall
    /\ \E op \in BatchOps, queries \in QuerySequences :
          cursors = [op |-> op, queries |-> queries,
                     single_outcomes |-> single_outcomes(index, queries),
                     iter |-> BatchComputedCursors_new(queries),
                     yielded |-> 0, done |-> FALSE, item |-> NoItem]
    /\ ranked = NoRank

\* one call of next on the iterator the caller holds; count_of and hits_of tell what
\* the adaptor of the call maps the cursor to
IteratorNext(op, count_of, hits_of) ==
    /\ cursors.op = op
    /\ ~cursors.done
    /\ \E result \in {BatchComputedCursors_next(index, cursors.iter)} :
          cursors' =
              [cursors EXCEPT
                  !.iter = result[1],
                  !.yielded = IF result[2] = None THEN @ ELSE @ + 1,
                  !.done = (result[2] = None),
                  !.item = IF result[2] = None THEN NoItem
                           ELSE Item(result[2][1],
                                     IF count_of THEN interval_count(result[2][1]) ELSE 0,
                                     IF hits_of THEN locate_interval(index, result[2][1])
                                     ELSE <<>>)]
    /\ UNCHANGED <<texts, index, call, ranked>>

\* next on the iterator of cursors_for_many_queries
CursorsNext == IteratorNext("cursors_for_many_queries", FALSE, FALSE)

\* next on the iterator of count_many: the cursor mapped to its count
CountManyNext == IteratorNext("count_many", TRUE, FALSE)

\* next on the iterator of locate_many: the cursor mapped to its hits, drained
LocateManyNext == IteratorNext("locate_many", FALSE, TRUE)

BatchNext ==
    \/ CursorsNext
    \/ CountManyNext
    \/ LocateManyNext

BatchSpec == BatchInit /\ [][BatchNext]_vars

\* ------------------------------- compute_next_batch, one loop round at a time
\* where compute_next_batch stands: not called yet, after a compaction, after the
\* queries were moved back (the batch is ready), or unwinding from a panic
Phases == {"new", "compacted", "moved_back", "panicked"}

\* a call of cursors_for_many_queries whose batches are computed one after the other
CompactionInit ==
    /\ texts \in BatchTextLists
    /\ \E lookup_table_depth \in LookupDepths :
          index = FmIndex_new(texts, lookup_table_depth + 1, lookup_table_depth,
                              "condensed", Block64_NUM_BITS)
    /\ call = NoCall
    /\ \E queries \in QuerySequences :
          cursors = [op |-> "compute_next_batch", phase |-> "new",
                     iter |-> BatchComputedCursors_new(queries),
                     pulled |-> <<>>,
                     next_idx_in_queries |-> 0,
                     num_remaining_unfinished_queries |-> 0]
    /\ ranked = NoRank

\* compute_next_batch up to the first compaction: pull, lookup jumps,
\* move_finished_queries_to_end
PullJumpCompact ==
    /\ cursors.op = "compute_next_batch"
    /\ \/ cursors.phase = "new"
       \/ cursors.phase = "moved_back" /\ cursors.iter.curr_batch_size > 0
    /\ \E pulled \in {pull_queries(cursors.iter.buffers, cursors.iter.queries_iter)} :
       \E jumped \in {batched_lookup_jumps(index, pulled.buffers, pulled.curr_batch_size)} :
       \E moved \in {IF jumped.outcome # Returned
                      THEN [buffers |-> jumped.buffers, num_remaining_unfinished_queries |-> 0]
                      ELSE move_finished_queries_to_end(jumped.buffers,
                                                        max_depth(index.lookup_tables),
                                                        pulled.curr_batch_size)} :
          cursors' =
              [cursors EXCEPT
                  !.phase = IF jumped.outcome # Returned THEN "panicked" ELSE "compacted",
                  !.iter = [@ EXCEPT !.next_idx_in_batch = 0,
                                     !.curr_batch_size = pulled.curr_batch_size,
                                     !.queries_iter = pulled.queries_iter,
                                     !.buffers = moved.buffers,
                                     !.outcome = jumped.outcome],
                  !.pulled = SubSeq(cursors.iter.queries_iter, 1, pulled.curr_batch_size),
                  !.next_idx_in_queries = max_depth(index.lookup_tables),
                  !.num_remaining_unfinished_queries = moved.num_remaining_unfinished_queries]
    /\ UNCHANGED <<texts, index, call, ranked>>

\* one iteration of the while loop of compute_next_batch: batched_lf_mappings, then
\* move_finished_queries_to_end
LfRoundCompact ==
    /\ cursors.op = "compute_next_batch"
    /\ cursors.phase = "compacted"
    /\ cursors.num_remaining_unfinished_queries > 0
    /\ \E mapped \in {batched_lf_mappings(index, cursors.iter.buffers,
                                           cursors.next_idx_in_queries,
                                           cursors.num_remaining_unfinished_queries)} :
       \E moved \in {IF mapped.outcome # Returned
                      THEN [buffers |-> mapped.buffers, num_remaining_unfinished_queries |-> 0]
                      ELSE move_finished_queries_to_end(
                               mapped.buffers, cursors.next_idx_in_queries + 1,
                               cursors.num_remaining_unfinished_queries)} :
          cursors' =
              [cursors EXCEPT
                  !.phase = IF mapped.outcome # Returned THEN "panicked" ELSE "compacted",
                  !.iter = [@ EXCEPT !.buffers = moved.buffers, !.outcome = mapped.outcome],
                  !.next_idx_in_queries = @ + 1,
                  !.num_remaining_unfinished_queries = moved.num_remaining_unfinished_queries]
    /\ UNCHANGED <<texts, index, call, ranked>>

\* the end of compute_next_batch: move_queries_back_to_initial_order
MoveBack ==
    /\ cursors.op = "compute_next_batch"
    /\ cursors.phase = "compacted"
    /\ cursors.num_remaining_unfinished_queries = 0
    /\ cursors' =
          [cursors EXCEPT
              !.phase = "moved_back",
              !.iter = [@ EXCEPT !.buffers = move_queries_back_to_initial_order(
                                                 @, cursors.iter.curr_batch_size)]]
    /\ UNCHANGED <<texts, index, call, ranked>>

CompactionNext ==
    \/ PullJumpCompact
    \/ LfRoundCompact
    \/ MoveBack

CompactionSpec == CompactionInit /\ [][CompactionNext]_vars

\* ------------------------------------------- the rank structures' state machine
\* the alphabet size of the rank structure tests
RankAlphabetSize == 3

\* calls of rank and symbol_at on one constructed structure
MaxRankCalls == 1

\* the texts repeat one symbol, or the ten symbols of the superblock test
RankPeriods == { <<1>>, <<0, 1, 2, 2, 1, 0, 0, 0, 1, 2>> }

\* the lengths and the indices where a block or a superblock of one of the structures
\* begins, and their neighbours
RankBoundaries ==
    LET used(NUM_BITS) == NUM_BITS - NUM_BLOCK_OFFSET_BITS
        starts == BlockWidths \cup {used(w) : w \in BlockWidths}
                    \cup {condensed_superblock_size}
                    \cup {flat_superblock_size(w) : w \in BlockWidths}
    IN  {0, 1} \cup starts \cup {s - 1 : s \in starts} \cup {s + 1 : s \in starts}

RankTexts == {[len |-> len, period |-> period] : len \in RankBoundaries, period \in RankPeriods}

\* block_offsets_sum[symbol] += 1 on a u16 at 65535
AddOverflow == "attempt to add with overflow"

\* how construct ends: the overflow of the condensed structure's u16 sum panics in
\* a build with overflow checks and wraps in one without
construct_outcomes(encoding, text, alphabet_size) ==
    IF encoding = "condensed" /\ condensed_fill_overflows(text, alphabet_size)
    THEN {Returned, AddOverflow}
    ELSE {Returned}

\* the alphabet size of the half byte compression tests
HalfByteAlphabetSize == 16

\* the symbols the half byte compressed texts repeat: both nibbles of a byte get
\* every one of them in turn
HalfBytePeriod == <<0, 15, 1, 7, 8, 2, 3>>

\* the half byte compressed texts are shorter than this
MaxHalfByteTextLen == 520

HalfByteTexts ==
    {[len |-> len, period |-> HalfBytePeriod] :
        len \in {b \in RankBoundaries : b < MaxHalfByteTextLen}}

\* the symbols of a text as a slice
ArrayOfText(text) == [k \in 0 .. text.len - 1 |-> TextAt(text, k)]

\* the half byte compressed BWT that bwt_from_suffix_array hands on: a text of odd
\* length is extended by the symbol 1 before it is compressed, and that is what the
\* half of the last byte past the BWT holds
half_byte_compressed(text) ==
    LET slice == ArrayOfText(text)
    IN  half_byte_compress_text(
            IF text.len % 2 = 1
            THEN [k \in 0 .. text.len |-> IF k < text.len THEN slice[k] ELSE 1]
            ELSE slice)

\* the symbols construct_from_maybe_slice_compressed_text reads with S::iter
iterated_symbols(S, text) ==
    IF S = "NoSliceCompression" THEN text
    ELSE TextOfArray(SliceCompression_iter(S, half_byte_compressed(text)))

\* the texts a structure is built from, raw or half byte compressed
RankInputs ==
    {[S |-> "NoSliceCompression", text |-> text, alphabet_size |-> RankAlphabetSize] :
        text \in RankTexts}
    \cup {[S |-> S, text |-> text, alphabet_size |-> HalfByteAlphabetSize] :
            S \in SliceCompressions, text \in HalfByteTexts}

\* the structure under test, as construct_from_maybe_slice_compressed_text returned it
Constructed ==
    construct_from_maybe_slice_compressed_text(
        ranked.encoding, ranked.symbols, ranked.text.len, ranked.alphabet_size, ranked.NUM_BITS)

\* construct_from_maybe_slice_compressed_text was called on a text
RankInit ==
    /\ texts = <<>>
    /\ index = <<>>
    /\ call = NoCall
    /\ cursors = NoCursors
    /\ \E encoding \in Encodings, NUM_BITS \in BlockWidths, input \in RankInputs :
          \E symbols \in {iterated_symbols(input.S, input.text)} :
              \E outcome \in construct_outcomes(encoding, symbols, input.alphabet_size) :
                  ranked = [op |-> "construct", encoding |-> encoding, NUM_BITS |-> NUM_BITS,
                            slice_compression |-> input.S, text |-> input.text,
                            symbols |-> symbols, alphabet_size |-> input.alphabet_size,
                            outcome |-> outcome, calls |-> 0,
                            symbol |-> 0, idx |-> 0, value |-> 0]

\* TextWithRankSupport::rank on the constructed structure
Rank(symbol, idx) ==
    /\ ranked.outcome = Returned /\ ranked.calls < MaxRankCalls
    /\ symbol < ranked.alphabet_size /\ idx <= ranked.text.len
    /\ ranked' = [ranked EXCEPT !.op = "rank", !.symbol = symbol, !.idx = idx,
                                !.calls = @ + 1,
                                !.value = rank_unchecked(Constructed, symbol, idx)]
    /\ UNCHANGED <<texts, index, call, cursors>>

\* TextWithRankSupport::symbol_at on the constructed structure
SymbolAt(idx) ==
    /\ ranked.outcome = Returned /\ ranked.calls < MaxRankCalls
    /\ idx < ranked.text.len
    /\ ranked' = [ranked EXCEPT !.op = "symbol_at", !.symbol = 0, !.idx = idx,
                                !.calls = @ + 1,
                                !.value = symbol_at(Constructed, idx)]
    /\ UNCHANGED <<texts, index, call, cursors>>

RankNext ==
    \/ \E symbol \in 0 .. HalfByteAlphabetSize - 1, idx \in RankBoundaries : Rank(symbol, idx)
    \/ \E idx \in RankBoundaries : SymbolAt(idx)

RankSpec == RankInit /\ [][RankNext]_vars

\* --------------------------- texts and queries over bytes of shared groups
\* bytes of the groups [Aa], [Gg] and [Nn]: A, a, G, N, n
GroupBytes == {65, 97, 71, 78, 110}

\* the texts and the query of the crate-level example, and the example in one case
DocTexts == << <<97, 65, 67, 71, 84>>, <<97, 99, 71, 116, 110>> >>

DocTextsUpperCase == << <<65, 65, 67, 71, 84>>, <<65, 67, 71, 84, 78>> >>

DocTextsLowerCase == << <<97, 97, 99, 103, 116>>, <<97, 99, 103, 116, 110>> >>

DocQuery == <<71, 84>>

DocQueries == {DocQuery, <<103, 116>>, <<71, 116>>, <<103, 84>>}

GroupTextLists ==
    {ts \in UNION {[1 .. m -> SeqsUpTo(GroupBytes, MaxTotalLen)] : m \in 1 .. MaxTexts} :
        SeqSum([t \in 1 .. Len(ts) |-> Len(ts[t])]) <= MaxTotalLen}
    \cup {DocTexts, DocTextsUpperCase, DocTextsLowerCase}

GroupPatterns == SeqsUpTo(GroupBytes, MaxPatLen) \cup DocQueries

\* the bytes of GroupBytes that share the group of `byte`, `byte` excluded
SameGroupBytes(byte) ==
    {b \in GroupBytes \ {byte} :
        \E i \in 1 .. Len(symbol_groups) : {b, byte} \subseteq symbol_groups[i]}

\* the patterns of the same length whose bytes have the dense encodings of `query`
SameEncodingPatterns(query) ==
    {other \in GroupPatterns :
        /\ Len(other) = Len(query)
        /\ \A k \in 1 .. Len(query) :
              try_io_to_dense_representation(other[k]) = try_io_to_dense_representation(query[k])}

GroupInit ==
    /\ texts \in GroupTextLists
    /\ \E lookup_table_depth \in LookupDepths :
          index = FmIndex_new(texts, 2, lookup_table_depth, "condensed", Block64_NUM_BITS)
    /\ call = NoCall
    /\ cursors = NoCursors
    /\ ranked = NoRank

\* FmIndexConfig::construct_index with the same configuration, on the texts with byte
\* `at` of text `t` replaced by another byte of its group
ReplaceTextByte(t, at, byte) ==
    /\ call.op = "none"
    /\ SeqSum([k \in 1 .. Len(texts) |-> Len(texts[k])]) <= MaxTotalLen
    /\ t \in 1 .. Len(texts)
    /\ at \in 1 .. Len(texts[t])
    /\ byte \in SameGroupBytes(texts[t][at])
    /\ texts' = [texts EXCEPT ![t][at] = byte]
    /\ index' = FmIndex_new(texts', index.suffix_array.sampling_rate,
                            max_depth(index.lookup_tables), "condensed", Block64_NUM_BITS)
    /\ call' = [NoCall EXCEPT !.op = "construct_index"]
    /\ UNCHANGED <<cursors, ranked>>

GroupNext ==
    \/ \E query \in GroupPatterns : Count(query)
    \/ \E query \in GroupPatterns : Locate(query)
    \/ \E t \in 1 .. MaxTexts, at \in 1 .. MaxTotalLen, byte \in GroupBytes :
          ReplaceTextByte(t, at, byte)
    \/ Return

GroupSpec == GroupInit /\ [][GroupNext]_vars

\* ----------------------------------- the text id search tree's state machine
\* the text lengths behind the sentinel indices of the test basic_text_lookup
BasicTextLookupLens == <<10, 10, 10, 17, 17, 71, 0>>

TreeTextLens ==
    UNION {[1 .. m -> 0 .. MaxTreeTextLen] : m \in 1 .. MaxTreeTexts}
    \cup UNION {[1 .. m -> 0 .. MaxTreeTextLen + 1] : m \in 1 .. MaxLongTreeTexts}
    \cup {BasicTextLookupLens}

\* construction of the tree from the sentinel indices of the texts; of the index only
\* the tree is built
TreeInit ==
    /\ \E lens \in TreeTextLens : texts = [t \in 1 .. Len(lens) |-> [k \in 1 .. lens[t] |-> 65]]
    /\ index = [text_ids |-> new_from_sentinel_indices(sentinel_indices(texts))]
    /\ call = [op |-> "none"]
    /\ cursors = NoCursors
    /\ ranked = NoRank

\* TexdIdSearchTree::lookup_text_id
LookupTextId(concatenated_text_index) ==
    /\ call' = [op |-> "lookup_text_id",
                concatenated_text_index |-> concatenated_text_index,
                text_id |-> lookup_text_id(index.text_ids, concatenated_text_index)]
    /\ UNCHANGED <<texts, index, cursors, ranked>>

TreeNext ==
    \E concatenated_text_index \in 0 .. index.text_ids.sentinel_indices[Len(texts) - 1] :
        LookupTextId(concatenated_text_index)

TreeSpec == TreeInit /\ [][TreeNext]_vars

\* ------------------------------------- the alphabet constructors' state machine
\* the panics of the constructors, by the message of the failed assertion
EmptyGroup == "Every group of symbols must contain at least one symbol"

NotUnique == "Symbols of the alphabet must be unique."

TooLarge == "Alphabet size can be at most 255 (to leave space for the sentinel)."

TooSmall == "Alphabet size must be at least 2 (including sentinel)"

InvalidTables == "The alphabet translation tables are invalid."

NoSearchableSymbol == "Invalid alphabet. there must be at least one searchable symbol."

\* a variant that lets every symbol with an IO representation be not searchable
Alphabet_new_leaving_no_searchable_symbol(io_to_dense, dense_to_io, not_searcheable) ==
    LET size == Len(dense_to_io) + 1
        dense_symbols == Cardinality({io_to_dense[b] : b \in 0 .. 255} \ {0}) + 1
    IN  IF ~(size > 1) THEN [outcome |-> TooSmall]
        ELSE IF ~(size <= 256) THEN [outcome |-> TooLarge]
        ELSE IF dense_symbols # size THEN [outcome |-> InvalidTables]
        ELSE IF ~(not_searcheable + 1 <= size) THEN [outcome |-> NoSearchableSymbol]
        ELSE [outcome |-> Returned,
              io_to_dense_representation_table |-> io_to_dense,
              dense_to_io_representation_table |-> dense_to_io,
              num_io_symbols_not_searcheable |-> not_searcheable]

\* Alphabet::new
Alphabet_new(io_to_dense, dense_to_io, not_searcheable) ==
    LET size == Len(dense_to_io) + 1
        dense_symbols == Cardinality({io_to_dense[b] : b \in 0 .. 255} \ {0}) + 1
    IN  IF ~(size > 1) THEN [outcome |-> TooSmall]
        ELSE IF ~(size <= 256) THEN [outcome |-> TooLarge]
        ELSE IF dense_symbols # size THEN [outcome |-> InvalidTables]
        ELSE IF ~(not_searcheable + 2 <= size) THEN [outcome |-> NoSearchableSymbol]
        ELSE [outcome |-> Returned,
              io_to_dense_representation_table |-> io_to_dense,
              dense_to_io_representation_table |-> dense_to_io,
              num_io_symbols_not_searcheable |-> not_searcheable]

\* Alphabet::from_io_symbols; the table keeps the last write of the loop, as a u8
from_io_symbols(symbols, not_searcheable) ==
    LET symbols_set == {symbols[i] : i \in 1 .. Len(symbols)}
        last_write(b) == CHOOSE i \in 1 .. Len(symbols) :
                             symbols[i] = b /\ \A j \in i + 1 .. Len(symbols) : symbols[j] # b
    IN  IF Len(symbols) # Cardinality(symbols_set) THEN [outcome |-> NotUnique]
        ELSE IF ~(Len(symbols) <= 255) THEN [outcome |-> TooLarge]
        ELSE Alphabet_new([b \in 0 .. 255 |->
                              IF b \in symbols_set THEN last_write(b) % 256 ELSE 0],
                          symbols, not_searcheable)

\* Alphabet::from_ambiguous_io_symbols
from_ambiguous_io_symbols(groups, not_searcheable) ==
    LET group_set(i) == {groups[i][j] : j \in 1 .. Len(groups[i])}
        all_symbols == UNION {group_set(i) : i \in 1 .. Len(groups)}
        num_symbols_total == Cardinality({p \in (1 .. Len(groups)) \X (1 .. 256) :
                                             p[2] <= Len(groups[p[1]])})
        last_write(b) == CHOOSE i \in 1 .. Len(groups) :
                             b \in group_set(i) /\ \A j \in i + 1 .. Len(groups) : b \notin group_set(j)
    IN  IF \E i \in 1 .. Len(groups) : groups[i] = <<>> THEN [outcome |-> EmptyGroup]
        ELSE IF num_symbols_total # Cardinality(all_symbols) THEN [outcome |-> NotUnique]
        ELSE IF ~(Len(groups) <= 255) THEN [outcome |-> TooLarge]
        ELSE Alphabet_new([b \in 0 .. 255 |->
                              IF b \in all_symbols THEN last_write(b) % 256 ELSE 0],
                          [i \in 1 .. Len(groups) |-> groups[i][1]], not_searcheable)

\* Alphabet::num_dense_symbols
Alphabet_num_dense_symbols(alphabet) == Len(alphabet.dense_to_io_representation_table) + 1

\* Alphabet::num_searchable_dense_symbols
Alphabet_num_searchable_dense_symbols(alphabet) ==
    Alphabet_num_dense_symbols(alphabet) - alphabet.num_io_symbols_not_searcheable - 1

\* bytes the symbols of the constructed alphabets are drawn from: A, C, a
AlphabetBytes == {65, 67, 97}

\* every byte once, and all bytes but the last
AllBytes == [i \in 1 .. 256 |-> i - 1]

AllBytesButOne == [i \in 1 .. 255 |-> i - 1]

SymbolLists == SeqsUpTo(AlphabetBytes, MaxGroups) \cup {AllBytes, AllBytesButOne}

GroupLists ==
    SeqsUpTo(SeqsUpTo(AlphabetBytes, MaxGroupLen), MaxGroups)
    \cup {[i \in 1 .. 256 |-> <<AllBytes[i]>>], [i \in 1 .. 255 |-> <<AllBytes[i]>>],
          [i \in 1 .. 128 |-> <<AllBytes[2 * i - 1], AllBytes[2 * i]>>]}

AlphabetInit ==
    /\ texts = <<>>
    /\ index = [op |-> "none"]
    /\ call = [op |-> "none"]
    /\ cursors = NoCursors
    /\ ranked = NoRank

FromIoSymbols(symbols, not_searcheable) ==
    /\ call.op = "none"
    /\ call' = [op |-> "from_io_symbols", symbols |-> [i \in 1 .. Len(symbols) |-> <<symbols[i]>>],
                num_io_symbols_not_searcheable |-> not_searcheable,
                alphabet |-> from_io_symbols(symbols, not_searcheable)]
    /\ UNCHANGED <<texts, index, cursors, ranked>>

FromAmbiguousIoSymbols(groups, not_searcheable) ==
    /\ call.op = "none"
    /\ call' = [op |-> "from_ambiguous_io_symbols", symbols |-> groups,
                num_io_symbols_not_searcheable |-> not_searcheable,
                alphabet |-> from_ambiguous_io_symbols(groups, not_searcheable)]
    /\ UNCHANGED <<texts, index, cursors, ranked>>

\* the caller drops the alphabet (or has caught the panic)
DropAlphabet ==
    /\ call.op # "none"
    /\ call' = [op |-> "none"]
    /\ UNCHANGED <<texts, index, cursors, ranked>>

AlphabetNext ==
    \/ \E symbols \in SymbolLists, not_searcheable \in 0 .. MaxNotSearchable :
          FromIoSymbols(symbols, not_searcheable)
    \/ \E groups \in GroupLists, not_searcheable \in 0 .. MaxNotSearchable :
          FromAmbiguousIoSymbols(groups, not_searcheable)
    \/ DropAlphabet

AlphabetSpec == AlphabetInit /\ [][AlphabetNext]_vars

\* ------------------------- the batched rank of the interval borders, by encoding
\* the staged body of CondensedTextWithRankSupport::
\* replace_many_interval_borders_with_ranks_unchecked; `idx_in_block_ends` holds, by
\* slot, the index up to which the ones of the end border's block are counted
condensed_replace_many_staged(twrs, buffers, num_remaining_unfinished_queries, idx_in_block_ends) ==
    LET active == 0 .. num_remaining_unfinished_queries - 1
        symbols(i) == slot(buffers.symbols, i)
        start(i) == slot(buffers.intervals, i).start
        end(i) == slot(buffers.intervals, i).end
        alphabet_num_bits == ilog2_ceil_for_nonzero(twrs["alphabet_size"])
        superblock_offsets_starts ==
            [i \in active |-> twrs.interleaved_superblock_offsets[
                                  condensed_superblock_offset_idx(twrs, symbols(i), start(i))]]
        superblock_offsets_ends ==
            [i \in active |-> twrs.interleaved_superblock_offsets[
                                  condensed_superblock_offset_idx(twrs, symbols(i), end(i))]]
        block_offsets_starts ==
            [i \in active |-> twrs.interleaved_block_offsets[
                                  condensed_block_offset_idx(twrs, symbols(i), start(i))]]
        block_offsets_ends ==
            [i \in active |-> twrs.interleaved_block_offsets[
                                  condensed_block_offset_idx(twrs, symbols(i), end(i))]]
        \* the first block of the slice, then set_to_self_and over the other blocks,
        \* each negated when the bit of the shifted symbol is 0
        RECURSIVE accumulate(_, _, _)
        accumulate(block_range, symbol, p) ==
            IF p = 0 THEN PlaneBlock(twrs, block_range, 0, symbol)
            ELSE accumulate(block_range, symbol, p - 1)
                    \cap PlaneBlock(twrs, block_range, p, symbol)
        accumulator_blocks_starts ==
            [i \in active |-> accumulate(condensed_block_range(twrs, start(i)), symbols(i),
                                         alphabet_num_bits - 1)]
        accumulator_blocks_ends ==
            [i \in active |-> accumulate(condensed_block_range(twrs, end(i)), symbols(i),
                                         alphabet_num_bits - 1)]
    IN  [buffers EXCEPT !.intervals =
            [s \in 1 .. Len(@) |->
                IF s - 1 \in active
                THEN [start |-> superblock_offsets_starts[s - 1] + block_offsets_starts[s - 1]
                                  + count_ones_before(accumulator_blocks_starts[s - 1],
                                                      start(s - 1) % twrs["NUM_BITS"]),
                      end |-> superblock_offsets_ends[s - 1] + block_offsets_ends[s - 1]
                                + count_ones_before(accumulator_blocks_ends[s - 1],
                                                    idx_in_block_ends[s - 1])]
                ELSE @[s]]]

\* a variant that counts the ones of the end border's block up to the start border's
\* index in its block
condensed_replace_many_counting_to_start_idx(twrs, buffers, num_remaining_unfinished_queries) ==
    condensed_replace_many_staged(twrs, buffers, num_remaining_unfinished_queries,
        [i \in 0 .. num_remaining_unfinished_queries - 1 |->
            slot(buffers.intervals, i).start % twrs["NUM_BITS"]])

\* CondensedTextWithRankSupport::replace_many_interval_borders_with_ranks_unchecked
condensed_replace_many_interval_borders_with_ranks_unchecked(twrs, buffers, num_remaining_unfinished_queries) ==
    condensed_replace_many_staged(twrs, buffers, num_remaining_unfinished_queries,
        [i \in 0 .. num_remaining_unfinished_queries - 1 |->
            slot(buffers.intervals, i).end % twrs["NUM_BITS"]])

\* FlatTextWithRankSupport::replace_many_interval_borders_with_ranks_unchecked
flat_replace_many_interval_borders_with_ranks_unchecked(twrs, buffers, num_remaining_unfinished_queries) ==
    LET active == 0 .. num_remaining_unfinished_queries - 1
        symbols(i) == slot(buffers.symbols, i)
        start(i) == slot(buffers.intervals, i).start
        end(i) == slot(buffers.intervals, i).end
        superblock_offsets_starts ==
            [i \in active |-> twrs.interleaved_superblock_offsets[
                                  flat_superblock_offset_idx(twrs, symbols(i), start(i))]]
        superblock_offsets_ends ==
            [i \in active |-> twrs.interleaved_superblock_offsets[
                                  flat_superblock_offset_idx(twrs, symbols(i), end(i))]]
        blocks_starts ==
            [i \in active |-> twrs.interleaved_blocks[flat_block_idx(twrs, symbols(i), start(i))]]
        blocks_ends ==
            [i \in active |-> twrs.interleaved_blocks[flat_block_idx(twrs, symbols(i), end(i))]]
    IN  [buffers EXCEPT !.intervals =
            [s \in 1 .. Len(@) |->
                IF s - 1 \in active
                THEN [start |-> superblock_offsets_starts[s - 1]
                                  + extract_block_offset(blocks_starts[s - 1])
                                  + count_ones_before(
                                        zeroize_block_offset(blocks_starts[s - 1]),
                                        flat_idx_in_block(twrs, start(s - 1))
                                            + NUM_BLOCK_OFFSET_BITS),
                      end |-> superblock_offsets_ends[s - 1]
                                + extract_block_offset(blocks_ends[s - 1])
                                + count_ones_before(
                                      zeroize_block_offset(blocks_ends[s - 1]),
                                      flat_idx_in_block(twrs, end(s - 1))
                                          + NUM_BLOCK_OFFSET_BITS)]
                ELSE @[s]]]

replace_many_interval_borders_with_ranks_unchecked(twrs, buffers, num_remaining_unfinished_queries) ==
    IF twrs["encoding"] = "condensed"
    THEN condensed_replace_many_interval_borders_with_ranks_unchecked(
             twrs, buffers, num_remaining_unfinished_queries)
    ELSE flat_replace_many_interval_borders_with_ranks_unchecked(
             twrs, buffers, num_remaining_unfinished_queries)

\* the assertion of TextWithRankSupport::replace_many_interval_borders_with_ranks:
\* every slot of the buffers, used or not, holds a symbol and borders in range
replace_many_is_safe(twrs, buffers) ==
    /\ \A s \in 1 .. Len(buffers.symbols) : buffers.symbols[s] < twrs["alphabet_size"]
    /\ \A s \in 1 .. Len(buffers.intervals) :
          /\ buffers.intervals[s].start <= twrs["text_len"]
          /\ buffers.intervals[s].end <= twrs["text_len"]

\* the N of the buffers in test_replace_many_intervals_same_as_rank
ReplaceManySlots == 8

\* the numbers of slots whose borders are replaced
ReplaceManyCounts == {0, 3, ReplaceManySlots}

\* the buffers of one call are drawn by a seed
ReplaceManySeeds == {0, 1, 2}

\* the elements of a set of numbers in ascending order
RECURSIVE SortedSeq(_)
SortedSeq(S) ==
    IF S = {} THEN <<>>
    ELSE LET least == CHOOSE m \in S : \A o \in S : m <= o
         IN  <<least>> \o SortedSeq(S \ {least})

\* buffers whose borders are block and superblock boundaries up to text_len, in no
\* order (a start may exceed its end), the first slot running from text_len to 0
replace_many_buffers(text_len, alphabet_size, seed) ==
    LET borders == SortedSeq({b \in RankBoundaries : b <= text_len})
        border(x) == borders[(x % Len(borders)) + 1]
    IN  [intervals |->
            [s \in 1 .. ReplaceManySlots |->
                IF s = 1 THEN HalfOpenInterval(text_len, 0)
                ELSE HalfOpenInterval(border(seed * 5 + s * 3), border(seed * 7 + s * 5 + 1))],
         symbols |-> [s \in 1 .. ReplaceManySlots |-> (seed + s - 1) % alphabet_size]]

\* TextWithRankSupport::replace_many_interval_borders_with_ranks on the constructed
\* structure
ReplaceMany(seed, num_remaining_unfinished_queries) ==
    /\ ranked.outcome = Returned /\ ranked.calls < MaxRankCalls
    /\ \E buffers \in {replace_many_buffers(ranked.text.len, ranked.alphabet_size, seed)} :
          /\ replace_many_is_safe(Constructed, buffers)
          /\ ranked' = [ranked EXCEPT
                           !.op = "replace_many", !.calls = @ + 1,
                           !.idx = num_remaining_unfinished_queries,
                           !.symbol = buffers,
                           !.value = replace_many_interval_borders_with_ranks_unchecked(
                                         Constructed, buffers,
                                         num_remaining_unfinished_queries)]
    /\ UNCHANGED <<texts, index, call, cursors>>

ReplaceNext ==
    \E seed \in ReplaceManySeeds, num_remaining_unfinished_queries \in ReplaceManyCounts :
        ReplaceMany(seed, num_remaining_unfinished_queries)

ReplaceSpec == RankInit /\ [][ReplaceNext]_vars

\* ------------------------------- the BWT and its border map, by chunks
PerformancePriorities == {"HighSpeed", "Balanced", "LowMemory"}

should_not_use_slice_compression(performance_priority) ==
    performance_priority = "HighSpeed" \/ num_dense_symbols > 16

\* rayon::current_num_threads(), which the machine and the thread pool decide
NumThreads == {1, 2, 8}

inner_chunk_size == 128

\* the outer chunk size: at least 2, and even
outer_chunk_size_of(text_len, num_threads) ==
    LET needed == div_ceil(text_len, num_threads * 4)
        size == IF needed > 2 THEN needed ELSE 2
    IN  IF size % 2 = 1 THEN size + 1 ELSE size

\* slice.chunks(chunk_size): consecutive chunks, the last one maybe shorter
chunks(slice, chunk_size) ==
    [c \in 0 .. div_ceil(ArrayLen(slice), chunk_size) - 1 |->
        [k \in 0 .. Min(chunk_size, ArrayLen(slice) - c * chunk_size) - 1 |->
            slice[c * chunk_size + k]]]

\* a variant that writes the two halves of a byte in the other order
SliceCompression_set_right_half_first(S, idx, byte, value) ==
    IF S = "NoSliceCompression" THEN value
    ELSE IF idx % 2 = 0 THEN pack_into_right_half_of_byte(byte, value)
    ELSE pack_into_left_half_of_byte(byte, value)

\* SliceCompression::set, as the new value of the byte that holds idx
SliceCompression_set(S, idx, byte, value) ==
    IF S = "NoSliceCompression" THEN value
    ELSE IF idx % 2 = 0 THEN pack_into_left_half_of_byte(byte, value)
    ELSE pack_into_right_half_of_byte(byte, value)

\* SliceCompression::iter_zero_indices
SliceCompression_iter_zero_indices(S, slice) ==
    {i \in 0 .. transformed_slice_len(S, slice) - 1 : SliceCompression_get(S, i, slice) = 0}

\* the symbol before the suffix, read from the maybe compressed text
text_value_before(S, text_idx, text, uncompressed_text_len) ==
    SliceCompression_get(S, (IF text_idx > 0 THEN text_idx ELSE uncompressed_text_len) - 1,
                         text)

\* the first loop over an inner chunk: every symbol set in its place of the chunk
written_inner_chunk(S, inner_suffix_array_chunk, inner_bwt_chunk, text, uncompressed_text_len) ==
    LET value(k) == text_value_before(S, inner_suffix_array_chunk[k], text,
                                      uncompressed_text_len)
        first_of_byte(b) == IF S = "NoSliceCompression" THEN b ELSE 2 * b
        after_first(b) ==
            IF first_of_byte(b) \in DOMAIN inner_suffix_array_chunk
            THEN SliceCompression_set(S, first_of_byte(b), inner_bwt_chunk[b],
                                      value(first_of_byte(b)))
            ELSE inner_bwt_chunk[b]
    IN  [b \in DOMAIN inner_bwt_chunk |->
            IF S # "NoSliceCompression" /\ 2 * b + 1 \in DOMAIN inner_suffix_array_chunk
            THEN SliceCompression_set(S, 2 * b + 1, after_first(b), value(2 * b + 1))
            ELSE after_first(b)]

\* a variant that places the zeroes of an inner chunk by the chunk size of the BWT
suffix_array_index_by_bwt_chunk_size(S, outer_chunk_size, outer_chunk_idx, inner_chunk_idx, i) ==
    outer_chunk_size * outer_chunk_idx
        + transform_chunk_size(S, inner_chunk_size) * inner_chunk_idx + i

\* the key of a zero found at i of an inner chunk
suffix_array_index(S, outer_chunk_size, outer_chunk_idx, inner_chunk_idx, i) ==
    outer_chunk_size * outer_chunk_idx + inner_chunk_size * inner_chunk_idx + i

\* HashMap: every entry of m1 inserted into m0
hashmap_insert_all(m0, m1) ==
    [key \in DOMAIN m0 \cup DOMAIN m1 |-> IF key \in DOMAIN m1 THEN m1[key] ELSE m0[key]]

\* the maps 0 .. n - 1 of an array of maps inserted one after the other
RECURSIVE hashmap_fold(_, _)
hashmap_fold(maps, n) ==
    IF n = 0 THEN [key \in {} |-> 0]
    ELSE hashmap_insert_all(hashmap_fold(maps, n - 1), maps[n - 1])

\* the closure run on one outer chunk: the written chunk, its border map, and
\* whether every zero index lay inside the suffix array chunk
outer_chunk_closure(S, outer_chunk_size, outer_chunk_idx, outer_suffix_array_chunk, outer_bwt_chunk, text, uncompressed_text_len) ==
    LET sa_chunks == chunks(outer_suffix_array_chunk, inner_chunk_size)
        bwt_chunks == chunks(outer_bwt_chunk, transform_chunk_size(S, inner_chunk_size))
        zipped == Min(ArrayLen(sa_chunks), ArrayLen(bwt_chunks))
        written == [c \in 0 .. zipped - 1 |->
                        written_inner_chunk(S, sa_chunks[c], bwt_chunks[c], text,
                                            uncompressed_text_len)]
        zero_indices == [c \in 0 .. zipped - 1 |->
                            SliceCompression_iter_zero_indices(S, written[c])]
        inner_map(c) ==
            LET found == zero_indices[c] \cap DOMAIN sa_chunks[c]
                key(i) == suffix_array_index(S, outer_chunk_size, outer_chunk_idx, c, i)
            IN  [k \in {key(i) : i \in found} |->
                    sa_chunks[c][CHOOSE i \in found : key(i) = k]]
    IN  [bwt |-> [c \in DOMAIN bwt_chunks |->
                    IF c < zipped THEN written[c] ELSE bwt_chunks[c]],
         text_border_lookup |-> hashmap_fold([c \in 0 .. zipped - 1 |-> inner_map(c)], zipped),
         in_bounds |-> \A c \in 0 .. zipped - 1 : zero_indices[c] \subseteq DOMAIN sa_chunks[c]]

\* the chunks of chunks of a buffer, laid out as the buffer again
buffer_of_chunks(buffer, outer_size, inner_size, outer_chunks) ==
    [b \in DOMAIN buffer |->
        IF b \div outer_size \in DOMAIN outer_chunks
        THEN outer_chunks[b \div outer_size].bwt[(b % outer_size) \div inner_size]
                                                [(b % outer_size) % inner_size]
        ELSE buffer[b]]

\* bwt_from_suffix_array_maybe_slice_compressed: the BWT buffer afterwards, the map
\* of each outer chunk, and the maps reduced into one
bwt_from_suffix_array_maybe_slice_compressed(S, suffix_array, text, bwt, uncompressed_text_len, num_threads) ==
    LET outer_chunk_size == outer_chunk_size_of(ArrayLen(text), num_threads)
        bwt_outer_chunk_size == transform_chunk_size(S, outer_chunk_size)
        sa_chunks == chunks(suffix_array, outer_chunk_size)
        bwt_chunks == chunks(bwt, bwt_outer_chunk_size)
        zipped == Min(ArrayLen(sa_chunks), ArrayLen(bwt_chunks))
        closures == [c \in 0 .. zipped - 1 |->
                        outer_chunk_closure(S, outer_chunk_size, c, sa_chunks[c],
                                            bwt_chunks[c], text, uncompressed_text_len)]
        chunk_maps == [c \in 0 .. zipped - 1 |-> closures[c].text_border_lookup]
    IN  [outcome |-> IF \A c \in 0 .. zipped - 1 : closures[c].in_bounds
                     THEN Returned ELSE OutOfBounds,
         bwt |-> buffer_of_chunks(bwt, bwt_outer_chunk_size,
                                  transform_chunk_size(S, inner_chunk_size), closures),
         chunk_maps |-> chunk_maps,
         text_border_lookup |-> hashmap_fold(chunk_maps, zipped)]

\* bwt_from_suffix_array: the buffers it hands on, raw or packed into half bytes
bwt_from_suffix_array_in_buffers(suffix_array, text, performance_priority, num_threads) ==
    LET uncompressed_text_len == ArrayLen(text) IN
    IF should_not_use_slice_compression(performance_priority)
    THEN bwt_from_suffix_array_maybe_slice_compressed(
             "NoSliceCompression", suffix_array, text,
             [k \in 0 .. uncompressed_text_len - 1 |-> 0], uncompressed_text_len, num_threads)
    ELSE LET pushed == [k \in 0 .. uncompressed_text_len - 1 + (uncompressed_text_len % 2) |->
                            IF k < uncompressed_text_len THEN text[k] ELSE 1]
             half == ArrayLen(pushed) \div 2
         IN  bwt_from_suffix_array_maybe_slice_compressed(
                 "HalfBytesCompression", suffix_array, half_byte_compress_text(pushed),
                 [k \in 0 .. half - 1 |-> pushed[half + k]], uncompressed_text_len,
                 num_threads)

\* lists of empty texts: the concatenated text is made of sentinels only
SentinelTextLens == {3, 129, MaxSentinelTexts - 1, MaxSentinelTexts}

SentinelTexts == {[t \in 1 .. m |-> <<>>] : m \in SentinelTextLens}

\* the concatenated text of n empty texts
concatenated_sentinels(n) == [k \in 0 .. n - 1 |-> 0]

\* the suffix array of sentinels only: the shorter suffix sorts first
suffix_array_of_sentinels(n) == [i \in 0 .. n - 1 |-> n - 1 - i]

\* the concatenated text and its suffix array, before the BWT is made
BwtInit ==
    /\ texts \in TextLists \cup SentinelTexts
    /\ \E text \in {IF texts \in SentinelTexts THEN concatenated_sentinels(Len(texts))
                    ELSE concatenated_text(texts)} :
          index = [text |-> text,
                   suffix_array |-> IF texts \in SentinelTexts
                                    THEN suffix_array_of_sentinels(Len(texts))
                                    ELSE construct_libsais_suffix_array(text)]
    /\ call = [op |-> "none"]
    /\ cursors = NoCursors
    /\ ranked = NoRank

BwtFromSuffixArray(performance_priority, num_threads) ==
    /\ call.op = "none"
    /\ \E result \in {bwt_from_suffix_array_in_buffers(index.suffix_array, index.text,
                                                       performance_priority, num_threads)} :
          call' = [op |-> "bwt_from_suffix_array",
                   performance_priority |-> performance_priority,
                   num_threads |-> num_threads,
                   outcome |-> result.outcome,
                   bwt |-> result.bwt,
                   chunk_maps |-> result.chunk_maps,
                   text_border_lookup |-> result.text_border_lookup]
    /\ UNCHANGED <<texts, index, cursors, ranked>>

\* the buffers are dropped and the construction starts over
DropBwt ==
    /\ call.op # "none"
    /\ call' = [op |-> "none"]
    /\ UNCHANGED <<texts, index, cursors, ranked>>

BwtNext ==
    \/ \E performance_priority \in PerformancePriorities, num_threads \in NumThreads :
          BwtFromSuffixArray(performance_priority, num_threads)
    \/ DropBwt

BwtSpec == BwtInit /\ [][BwtNext]_vars

\* ------------------------------------------ reads of the lookup tables
\* the words of searchable dense symbols that the tables of an index hold
DenseWords(fm_index) ==
    SeqsUpTo(1 .. num_searchable_dense_symbols, max_depth(fm_index.lookup_tables))

\* LookupTables::lookup_without_alphabet_translation
LookupWithoutAlphabetTranslation(query_suffix) ==
    /\ call.op = "none"
    /\ \E idx \in {compute_lookup_idx_without_alphabet_transition(index.lookup_tables,
                                                                   query_suffix)} :
          call' = [op |-> "lookup_without_alphabet_translation", query |-> query_suffix,
                   idx |-> idx,
                   outcome |-> IF lookup_idx_in_bounds(index.lookup_tables,
                                                       Len(query_suffix), idx)
                               THEN Returned ELSE OutOfBounds,
                   interval |-> IF lookup_idx_in_bounds(index.lookup_tables,
                                                        Len(query_suffix), idx)
                                THEN lookup_idx(index.lookup_tables, Len(query_suffix), idx)
                                ELSE NoInterval]
    /\ UNCHANGED <<texts, index, cursors, ranked>>

LookupNext ==
    \/ \E query_suffix \in DenseWords(index) : LookupWithoutAlphabetTranslation(query_suffix)
    \/ Return

LookupSpec == Init /\ [][LookupNext]_vars

\* ------------------------------------ construction by parallel workers
\* The parallel iterators of the construction: every worker owns the chunks that
\* split_at_mut and par_chunks_mut hand to it, and runs in any order with the others.
\* What a worker wrote is in `index`; who has still to run, and the order in which
\* the superblock workers ran, is in `call`.

\* a variant that keeps the greater of the two counts
merge_frequency_tables_keeping_greater(f1, f2) ==
    [c \in DOMAIN f1 |-> IF f1[c] > f2[c] THEN f1[c] ELSE f2[c]]

\* merge_frequency_tables
merge_frequency_tables(f1, f2) == [c \in DOMAIN f1 |-> f1[c] + f2[c]]

\* where the split of text t begins in the concatenated text
split_start(all_texts, t) == SeqSum([u \in 1 .. t - 1 |-> Len(all_texts[u]) + 1])

\* the closure of create_concatenated_densely_encoded_text on text t: its split
\* with the dense symbols written, the last place of the split left as it is
encoded_split(splits, all_texts, t) ==
    [k \in DOMAIN splits |->
        IF k >= split_start(all_texts, t) /\ k < split_start(all_texts, t) + Len(all_texts[t])
        THEN io_to_dense_representation(all_texts[t][k - split_start(all_texts, t) + 1])
        ELSE splits[k]]

\* the frequency table the closure returns for text t
split_frequency_table(all_texts, t) ==
    [c \in 0 .. 255 |->
        Cardinality({k \in 1 .. Len(all_texts[t]) : io_to_dense_representation(all_texts[t][k]) = c})]

\* results of neighbouring workers that reduce_with may join
Segment(lo, hi, value) == [lo |-> lo, hi |-> hi, value |-> value]

\* the storage modes and buffers bwt_from_suffix_array works on
bwt_buffers(text, performance_priority) ==
    LET uncompressed_text_len == ArrayLen(text) IN
    IF should_not_use_slice_compression(performance_priority)
    THEN [S |-> "NoSliceCompression", text |-> text,
          bwt |-> [k \in 0 .. uncompressed_text_len - 1 |-> 0]]
    ELSE LET pushed == [k \in 0 .. uncompressed_text_len - 1 + (uncompressed_text_len % 2) |->
                            IF k < uncompressed_text_len THEN text[k] ELSE 1]
             half == ArrayLen(pushed) \div 2
         IN  [S |-> "HalfBytesCompression", text |-> half_byte_compress_text(pushed),
              bwt |-> [k \in 0 .. half - 1 |-> pushed[half + k]]]

\* the superblock of a rank structure, in symbols
superblock_size_of(encoding, NUM_BITS) ==
    IF encoding = "condensed" THEN condensed_superblock_size ELSE flat_superblock_size(NUM_BITS)

\* the chunk of interleaved_blocks that one superblock worker gets
num_blocks_per_superblock(encoding, NUM_BITS, alphabet_size) ==
    IF encoding = "condensed"
    THEN (condensed_superblock_size \div NUM_BITS) * ilog2_ceil_for_nonzero(alphabet_size)
    ELSE (flat_superblock_size(NUM_BITS) \div (NUM_BITS - NUM_BLOCK_OFFSET_BITS)) * alphabet_size

\* the chunk of interleaved_block_offsets that one superblock worker gets
num_block_offsets_per_superblock(NUM_BITS, alphabet_size) ==
    (condensed_superblock_size \div NUM_BITS) * alphabet_size

\* the superblock workers: the zip of the chunk iterators ends with the text's chunks
superblock_workers(encoding, NUM_BITS, text) ==
    0 .. div_ceil(text.len, superblock_size_of(encoding, NUM_BITS)) - 1

\* the vectors of a rank structure as allocated, before any worker has run
allocated_rank_structure(encoding, text, uncompressed_text_len, alphabet_size, NUM_BITS) ==
    LET sized == construct_from_maybe_slice_compressed_text(
                    encoding, text, uncompressed_text_len, alphabet_size, NUM_BITS)
    IN  [encoding |-> encoding, NUM_BITS |-> NUM_BITS, alphabet_size |-> alphabet_size,
         rank_text |-> text, text_len |-> uncompressed_text_len,
         interleaved_blocks |-> [k \in DOMAIN sized.interleaved_blocks |-> zeroes],
         interleaved_block_offsets |->
            IF encoding = "condensed"
            THEN [k \in DOMAIN sized.interleaved_block_offsets |-> 0] ELSE <<>>,
         interleaved_superblock_offsets |->
            [k \in DOMAIN sized.interleaved_superblock_offsets |-> 0]]

\* fill_superblock on the chunks of superblock sb: its blocks, its block offsets,
\* and the number of each symbol in it added to its chunk of superblock offsets
fill_superblock(rs, sb) ==
    LET filled == construct_from_maybe_slice_compressed_text(
                     rs.encoding, rs.rank_text, rs.text_len, rs.alphabet_size, rs.NUM_BITS)
        superblock_size == superblock_size_of(rs.encoding, rs.NUM_BITS)
        blocks_chunk == num_blocks_per_superblock(rs.encoding, rs.NUM_BITS, rs.alphabet_size)
        offsets_chunk == num_block_offsets_per_superblock(rs.NUM_BITS, rs.alphabet_size)
    IN  [rs EXCEPT
            !.interleaved_blocks =
                [k \in DOMAIN @ |->
                    IF k \div blocks_chunk = sb THEN filled.interleaved_blocks[k] ELSE @[k]],
            !.interleaved_block_offsets =
                [k \in DOMAIN @ |->
                    IF k \div offsets_chunk = sb
                    THEN filled.interleaved_block_offsets[k] ELSE @[k]],
            !.interleaved_superblock_offsets =
                [k \in DOMAIN @ |->
                    IF k \div rs.alphabet_size = sb
                    THEN @[k] + CountRange(rs.rank_text, k % rs.alphabet_size,
                                           sb * superblock_size,
                                           Min(rs.rank_text.len, (sb + 1) * superblock_size))
                    ELSE @[k]]]

\* "accumulate superblocks in single thread": every chunk gets the sum of the chunks
\* before it
accumulate_superblocks(superblock_offsets, alphabet_size) ==
    [k \in DOMAIN superblock_offsets |->
        LET below == {j \in DOMAIN superblock_offsets : j < k /\ j % alphabet_size = k % alphabet_size}
            RECURSIVE sum(_)
            sum(js) == IF js = {} THEN 0
                       ELSE LET j == CHOOSE j \in js : TRUE
                            IN  superblock_offsets[j] + sum(js \ {j})
        IN  sum(below)]

\* a text of more than two superblocks of every structure, of ten mixed symbols
MaxParallelTextLen == 2 * condensed_superblock_size + 70

ParallelRankTexts ==
    {[len |-> len, period |-> <<0, 1, 2, 2, 1, 0, 0, 0, 1, 2>>] :
        len \in {MaxParallelTextLen - 70, MaxParallelTextLen}}

\* eight bytes in one text: the outer chunks of the BWT differ with the thread count
LongerTexts == { << <<65, 99, 78, 65, 65, 99, 65, 78>> >> }

\* the state when a parallel phase of the rank structure begins
rank_phase(rs) ==
    [phase |-> "fill_superblock",
     pending |-> superblock_workers(rs.encoding, rs.NUM_BITS, rs.rank_text),
     order |-> <<>>]

\* create_data_structures was called on the texts, or construct on a long text
ConstructionInit ==
    /\ cursors = NoCursors
    /\ ranked = NoRank
    /\ \/ /\ texts \in TextLists \cup LongerTexts
          /\ \E performance_priority \in PerformancePriorities, num_threads \in NumThreads :
                index = [performance_priority |-> performance_priority,
                         num_threads |-> num_threads,
                         concatenated_text |->
                            [k \in 0 .. split_start(texts, Len(texts) + 1) - 1 |-> 0],
                         segments |-> {}]
          /\ call = [phase |-> "encode", pending |-> 1 .. Len(texts), order |-> <<>>]
       \/ /\ texts = <<>>
          /\ \E encoding \in Encodings, NUM_BITS \in BlockWidths, text \in ParallelRankTexts :
                /\ index = allocated_rank_structure(encoding, text, text.len,
                                                    RankAlphabetSize, NUM_BITS)
                /\ call = rank_phase(index)

\* one closure of the map of create_concatenated_densely_encoded_text
EncodeText(t) ==
    /\ call.phase = "encode" /\ t \in call.pending
    /\ index' = [index EXCEPT
                    !.concatenated_text = encoded_split(@, texts, t),
                    !.segments = @ \cup {Segment(t, t, split_frequency_table(texts, t))}]
    /\ call' = [call EXCEPT !.pending = @ \ {t}]
    /\ UNCHANGED <<texts, cursors, ranked>>

\* reduce_with(merge_frequency_tables) joins the results of two neighbours
MergeFrequencyTables(left, right) ==
    /\ call.phase = "encode"
    /\ left \in index.segments /\ right \in index.segments /\ left.hi + 1 = right.lo
    /\ index' = [index EXCEPT
                    !.segments = (@ \ {left, right})
                        \cup {Segment(left.lo, right.hi,
                                      merge_frequency_tables(left.value, right.value))}]
    /\ UNCHANGED <<texts, call, cursors, ranked>>

\* the reduction is done: frequency_table[0] = num_texts, and the count table
FrequencyTableDone ==
    /\ call.phase = "encode" /\ call.pending = {}
    /\ \E whole \in index.segments :
          /\ index.segments = {whole}
          /\ \E merged \in {[whole.value EXCEPT ![0] = Len(texts)]} :
                index' = [performance_priority |-> index.performance_priority,
                          num_threads |-> index.num_threads,
                          concatenated_text |-> index.concatenated_text,
                          frequency_table |-> merged,
                          count |-> frequency_table_to_count(merged,
                                                             num_dense_symbols)]
    /\ call' = [phase |-> "suffix_array", pending |-> {}, order |-> <<>>]
    /\ UNCHANGED <<texts, cursors, ranked>>

\* construct_libsais_suffix_array, then bwt_from_suffix_array up to its parallel
\* iterator: the buffers and the outer chunks
SuffixArrayDone ==
    /\ call.phase = "suffix_array"
    /\ \E buffers \in {bwt_buffers(index.concatenated_text, index.performance_priority)} :
          \E outer_chunk_size \in {outer_chunk_size_of(ArrayLen(buffers.text),
                                                       index.num_threads)} :
            /\ index' = [performance_priority |-> index.performance_priority,
                         num_threads |-> index.num_threads,
                         concatenated_text |-> index.concatenated_text,
                         frequency_table |-> index.frequency_table,
                         count |-> index.count,
                         suffix_array |->
                            construct_libsais_suffix_array(index.concatenated_text),
                         S |-> buffers.S, text |-> buffers.text, bwt |-> buffers.bwt,
                         outer_chunk_size |-> outer_chunk_size,
                         segments |-> {}]
            /\ call' = [phase |-> "bwt",
                        pending |->
                            0 .. Min(div_ceil(ArrayLen(index.concatenated_text),
                                              outer_chunk_size),
                                     div_ceil(ArrayLen(buffers.bwt),
                                              transform_chunk_size(buffers.S,
                                                                   outer_chunk_size))) - 1,
                        order |-> <<>>]
    /\ UNCHANGED <<texts, cursors, ranked>>

\* one closure of the map of bwt_from_suffix_array_maybe_slice_compressed
BwtOuterChunk(c) ==
    /\ call.phase = "bwt" /\ c \in call.pending
    /\ \E bwt_outer_chunk_size \in {transform_chunk_size(index.S, index.outer_chunk_size)} :
       \E closure \in {outer_chunk_closure(
                          index.S, index.outer_chunk_size, c,
                          chunks(index.suffix_array, index.outer_chunk_size)[c],
                          chunks(index.bwt, bwt_outer_chunk_size)[c],
                          index.text, ArrayLen(index.concatenated_text))} :
          index' = [index EXCEPT
                      !.bwt = buffer_of_chunks(@, bwt_outer_chunk_size,
                                               transform_chunk_size(index.S, inner_chunk_size),
                                               c :> closure),
                      !.segments = @ \cup {Segment(c, c, closure.text_border_lookup)}]
    /\ call' = [call EXCEPT !.pending = @ \ {c}]
    /\ UNCHANGED <<texts, cursors, ranked>>

\* reduce_with joins the border maps of two neighbours
MergeBorderMaps(left, right) ==
    /\ call.phase = "bwt"
    /\ left \in index.segments /\ right \in index.segments /\ left.hi + 1 = right.lo
    /\ index' = [index EXCEPT
                    !.segments = (@ \ {left, right})
                        \cup {Segment(left.lo, right.hi,
                                      hashmap_insert_all(left.value, right.value))}]
    /\ UNCHANGED <<texts, call, cursors, ranked>>

\* the BWT is done; construct_from_maybe_slice_compressed_text allocates its vectors
BwtDone ==
    /\ call.phase = "bwt" /\ call.pending = {}
    /\ \E whole \in index.segments :
          /\ index.segments = {whole}
          /\ \E rs \in {allocated_rank_structure(
                           "condensed", TextOfArray(SliceCompression_iter(index.S, index.bwt)),
                           ArrayLen(index.concatenated_text), num_dense_symbols,
                           Block64_NUM_BITS)} :
                /\ index' = [performance_priority |-> index.performance_priority,
                             num_threads |-> index.num_threads,
                             count |-> index.count,
                             suffix_array |-> index.suffix_array,
                             bwt |-> index.bwt,
                             text_border_lookup |-> whole.value] @@ rs
                /\ call' = rank_phase(rs)
    /\ UNCHANGED <<texts, cursors, ranked>>

\* one closure of the for_each of construct_from_maybe_slice_compressed_text
FillSuperblock(sb) ==
    /\ call.phase = "fill_superblock" /\ sb \in call.pending
    /\ index' = fill_superblock(index, sb)
    /\ call' = [call EXCEPT !.pending = @ \ {sb}, !.order = Append(@, sb)]
    /\ UNCHANGED <<texts, cursors, ranked>>

\* for_each has returned: the superblock offsets are accumulated
AccumulateSuperblocks ==
    /\ call.phase = "fill_superblock" /\ call.pending = {}
    /\ index' = [index EXCEPT !.interleaved_superblock_offsets =
                                  accumulate_superblocks(@, index.alphabet_size)]
    /\ call' = [call EXCEPT !.phase = "constructed"]
    /\ UNCHANGED <<texts, cursors, ranked>>

ConstructionNext ==
    \/ \E t \in 1 .. Len(texts) : EncodeText(t)
    \/ call.phase = "encode" /\ \E left, right \in index.segments : MergeFrequencyTables(left, right)
    \/ FrequencyTableDone
    \/ SuffixArrayDone
    \/ \E c \in call.pending : BwtOuterChunk(c)
    \/ call.phase = "bwt" /\ \E left, right \in index.segments : MergeBorderMaps(left, right)
    \/ BwtDone
    \/ \E sb \in call.pending : FillSuperblock(sb)
    \/ AccumulateSuperblocks

ConstructionSpec == ConstructionInit /\ [][ConstructionNext]_vars

\* ------------------------------- the storage of the BWT: raw bytes or half bytes
\* should_not_use_slice_compression of an alphabet that keeps the sentinel's place
should_not_use_slice_compression_without_sentinel(performance_priority, alphabet) ==
    performance_priority = "HighSpeed" \/ Alphabet_num_dense_symbols(alphabet) - 1 > 16

\* should_not_use_slice_compression, of any alphabet
should_not_use_slice_compression_of(performance_priority, alphabet) ==
    performance_priority = "HighSpeed" \/ Alphabet_num_dense_symbols(alphabet) > 16

\* construct_text_with_rank_support_maybe_slice_compressed: the SliceCompression that
\* the rank structure is constructed with
chosen_slice_compression(performance_priority, alphabet) ==
    IF should_not_use_slice_compression_of(performance_priority, alphabet)
    THEN "NoSliceCompression"
    ELSE "HalfBytesCompression"

\* the numbers of symbols of the alphabets whose storage is chosen
StorageAlphabetSizes == {1, 15, 16, 17}

\* the bytes of the slice that is written and read
StorageSliceLen == 2

\* the values handed to SliceCompression::set
StorageValues == {0, 9, 15, 16}

\* the slice with set(idx, value) applied
slice_after_set(S, idx, slice, value) ==
    LET byte_idx == IF S = "NoSliceCompression" THEN idx ELSE idx \div 2
    IN  [slice EXCEPT ![byte_idx] = SliceCompression_set(S, idx, slice[byte_idx], value)]

\* an alphabet was made, a priority configured, and a zeroed slice allocated for the
\* storage that construction chooses for them
StorageInit ==
    /\ texts = <<>>
    /\ cursors = NoCursors
    /\ ranked = NoRank
    /\ call = [op |-> "none", idx |-> 0, value |-> 0]
    /\ \E sigma \in StorageAlphabetSizes, performance_priority \in PerformancePriorities :
          \E alphabet \in {from_io_symbols([i \in 1 .. sigma |-> AllBytes[i]], 0)} :
              index = [alphabet |-> alphabet,
                       performance_priority |-> performance_priority,
                       S |-> chosen_slice_compression(performance_priority, alphabet),
                       slice |-> [k \in 0 .. StorageSliceLen - 1 |-> 0],
                       before |-> [k \in 0 .. StorageSliceLen - 1 |-> 0],
                       latest |-> [k \in 0 .. 2 * StorageSliceLen - 1 |-> 0]]

\* SliceCompression::set; `latest` remembers the value last handed over for an index
Set(idx, value) ==
    /\ idx < transformed_slice_len(index.S, index.slice)
    /\ index' = [index EXCEPT !.slice = slice_after_set(index.S, idx, index.slice, value),
                              !.before = index.slice,
                              !.latest[idx] = value]
    /\ call' = [op |-> "set", idx |-> idx, value |-> value]
    /\ UNCHANGED <<texts, cursors, ranked>>

\* SliceCompression::get
Get(idx) ==
    /\ idx < transformed_slice_len(index.S, index.slice)
    /\ call' = [op |-> "get", idx |-> idx, value |-> SliceCompression_get(index.S, idx, index.slice)]
    /\ UNCHANGED <<texts, index, cursors, ranked>>

StorageNext ==
    \/ \E idx \in 0 .. 2 * StorageSliceLen - 1, value \in StorageValues : Set(idx, value)
    \/ \E idx \in 0 .. 2 * StorageSliceLen - 1 : Get(idx)

StorageSpec == StorageInit /\ [][StorageNext]_vars

\* ----------------------------- the walk back of recover_range, one iteration at a time
\* sampling rates of the indexes that are walked: two small ones and one greater
\* than every text
RecoverSamplingRates == {2, 3, 16}

\* no row is being recovered
NoWalk == [op |-> "none", phase |-> "none", row |-> 0, i |-> 0, num_steps_done |-> 0, value |-> 0]

\* an index was constructed
RecoverInit ==
    /\ texts \in TextLists \cup LongerTexts
    /\ \E sampling_rate \in RecoverSamplingRates :
          index = FmIndex_new(texts, sampling_rate, 0, "condensed", Block64_NUM_BITS)
    /\ call = NoWalk
    /\ cursors = NoCursors
    /\ ranked = NoRank

\* the closure of recover_range is entered for row i
RecoverRow(i) ==
    /\ call.op = "none"
    /\ call' = [op |-> "recover", phase |-> "loop", row |-> i, i |-> i,
                num_steps_done |-> 0, value |-> 0]
    /\ UNCHANGED <<texts, index, cursors, ranked>>

\* one iteration of the while loop, or the return
RecoverStep ==
    /\ call.op = "recover" /\ call.phase = "loop"
    /\ call' = recover_step(index, call)
    /\ UNCHANGED <<texts, index, cursors, ranked>>

\* the caller takes the value, or has caught the panic
RecoverDone ==
    /\ call.op = "recover" /\ call.phase # "loop"
    /\ call' = NoWalk
    /\ UNCHANGED <<texts, index, cursors, ranked>>

RecoverNext ==
    \/ \E i \in 0 .. total_text_len(index) - 1 : RecoverRow(i)
    \/ RecoverStep
    \/ RecoverDone

\* the closure runs on: an iteration that can be made is made
RecoverSpec == RecoverInit /\ [][RecoverNext]_vars /\ WF_vars(RecoverStep)

\* ----------------------- compute_next_batch, one iteration of its loops at a time
\* the texts of the indexes whose batches are computed
LoopTextLists == { << <<65>>, <<65, 99>> >>, << <<99>>, <<99, 65>> >> }

\* where compute_next_batch stands: not called, in move_finished_queries_to_end, in
\* move_queries_back_to_initial_order, returned, or unwinding from a panic
LoopPhases == {"new", "compaction", "move_back", "ready", "panicked"}

\* a call of cursors_for_many_queries whose batches are computed one after the other
LoopInit ==
    /\ texts \in LoopTextLists
    /\ \E lookup_table_depth \in LookupDepths :
          index = FmIndex_new(texts, lookup_table_depth + 1, lookup_table_depth,
                              "condensed", Block64_NUM_BITS)
    /\ call = NoCall
    /\ \E queries \in QuerySequences :
          cursors = [op |-> "compute_next_batch", phase |-> "new",
                     iter |-> BatchComputedCursors_new(queries),
                     i |-> 0, rounds |-> 0,
                     next_idx_in_queries |-> 0,
                     num_remaining_unfinished_queries |-> 0]
    /\ ranked = NoRank

\* compute_next_batch up to the first call of move_finished_queries_to_end: the pull
\* loop and the lookup jumps
PullAndJump ==
    /\ cursors.op = "compute_next_batch"
    /\ \/ cursors.phase = "new"
       \/ cursors.phase = "ready" /\ cursors.iter.curr_batch_size > 0
    /\ \E pulled \in {pull_queries(cursors.iter.buffers, cursors.iter.queries_iter)} :
       \E jumped \in {batched_lookup_jumps(index, pulled.buffers, pulled.curr_batch_size)} :
          cursors' =
              [cursors EXCEPT
                  !.phase = IF jumped.outcome # Returned THEN "panicked" ELSE "compaction",
                  !.iter = [@ EXCEPT !.next_idx_in_batch = 0,
                                     !.curr_batch_size = pulled.curr_batch_size,
                                     !.queries_iter = pulled.queries_iter,
                                     !.buffers = jumped.buffers,
                                     !.outcome = jumped.outcome],
                  !.i = 0, !.rounds = 0,
                  !.next_idx_in_queries = max_depth(index.lookup_tables),
                  !.num_remaining_unfinished_queries = pulled.curr_batch_size]
    /\ UNCHANGED <<texts, index, call, ranked>>

\* one iteration of the while loop of move_finished_queries_to_end
CompactionIteration ==
    /\ cursors.op = "compute_next_batch" /\ cursors.phase = "compaction"
    /\ cursors.i < cursors.num_remaining_unfinished_queries
    /\ \E loop \in {move_finished_step(
                        [buffers |-> cursors.iter.buffers, i |-> cursors.i,
                         num_remaining_unfinished_queries |->
                             cursors.num_remaining_unfinished_queries],
                        cursors.next_idx_in_queries)} :
          cursors' =
              [cursors EXCEPT
                  !.iter = [@ EXCEPT !.buffers = loop.buffers],
                  !.i = loop.i,
                  !.num_remaining_unfinished_queries = loop.num_remaining_unfinished_queries]
    /\ UNCHANGED <<texts, index, call, ranked>>

\* move_finished_queries_to_end has returned and queries remain: the body of the while
\* loop of compute_next_batch up to its call of move_finished_queries_to_end
LfRound ==
    /\ cursors.op = "compute_next_batch" /\ cursors.phase = "compaction"
    /\ cursors.i >= cursors.num_remaining_unfinished_queries
    /\ cursors.num_remaining_unfinished_queries > 0
    /\ \E mapped \in {batched_lf_mappings(index, cursors.iter.buffers,
                                           cursors.next_idx_in_queries,
                                           cursors.num_remaining_unfinished_queries)} :
          cursors' =
              [cursors EXCEPT
                  !.phase = IF mapped.outcome # Returned THEN "panicked" ELSE "compaction",
                  !.iter = [@ EXCEPT !.buffers = mapped.buffers, !.outcome = mapped.outcome],
                  !.i = 0, !.rounds = @ + 1,
                  !.next_idx_in_queries = @ + 1]
    /\ UNCHANGED <<texts, index, call, ranked>>

\* move_finished_queries_to_end has returned and no query remains: the while loop of
\* compute_next_batch ends, move_queries_back_to_initial_order begins
LeaveWhileLoop ==
    /\ cursors.op = "compute_next_batch" /\ cursors.phase = "compaction"
    /\ cursors.i >= cursors.num_remaining_unfinished_queries
    /\ cursors.num_remaining_unfinished_queries = 0
    /\ cursors' = [cursors EXCEPT !.phase = "move_back", !.i = 0]
    /\ UNCHANGED <<texts, index, call, ranked>>

\* one iteration of the while loop of move_queries_back_to_initial_order
MoveBackIteration ==
    /\ cursors.op = "compute_next_batch" /\ cursors.phase = "move_back"
    /\ cursors.i < cursors.iter.curr_batch_size
    /\ \E loop \in {move_back_step([buffers |-> cursors.iter.buffers, i |-> cursors.i],
                                   cursors.iter.curr_batch_size)} :
          cursors' = [cursors EXCEPT !.iter = [@ EXCEPT !.buffers = loop.buffers],
                                     !.i = loop.i]
    /\ UNCHANGED <<texts, index, call, ranked>>

\* move_queries_back_to_initial_order and compute_next_batch return
BatchReady ==
    /\ cursors.op = "compute_next_batch" /\ cursors.phase = "move_back"
    /\ cursors.i >= cursors.iter.curr_batch_size
    /\ cursors' = [cursors EXCEPT !.phase = "ready"]
    /\ UNCHANGED <<texts, index, call, ranked>>

LoopNext ==
    \/ PullAndJump
    \/ CompactionIteration
    \/ LfRound
    \/ LeaveWhileLoop
    \/ MoveBackIteration
    \/ BatchReady

\* compute_next_batch runs on: an iteration that can be made is made
LoopSpec == LoopInit /\ [][LoopNext]_vars /\ WF_vars(LoopNext)

\* ------------------------------------------------------------------ claims
\* the dense encoding of a byte string (0 where a byte is not in the alphabet)
Dense(bytes) == [k \in 1 .. Len(bytes) |-> try_io_to_dense_representation(bytes[k])]

\* every byte is a searchable symbol of the alphabet
Searchable(bytes) ==
    \A k \in 1 .. Len(bytes) : Dense(bytes)[k] \in 1 .. num_searchable_dense_symbols

\* every byte is a symbol of the alphabet
InAlphabet(bytes) == \A k \in 1 .. Len(bytes) : Dense(bytes)[k] # 0

\* naive_search of tests/fmindex.rs, symbols compared in their dense encoding:
\* every window of a text that equals the query; for the empty query every
\* position 0 ..= |text|
naive_search(ts, query) ==
    {h \in UNION {{Hit(t - 1, pos) : pos \in 0 .. Len(ts[t])} : t \in 1 .. Len(ts)} :
        IF query = <<>> THEN TRUE
        ELSE /\ h.position + Len(query) <= Len(ts[h.text_id + 1])
             /\ \A j \in 1 .. Len(query) :
                    Dense(ts[h.text_id + 1])[h.position + j] = Dense(query)[j]}

HitSet(hits) == {hits[k] : k \in 1 .. Len(hits)}

C2_CountEqualsNaiveCount ==
    (call.op = "count" /\ Searchable(call.query))
        => /\ call.outcome = Returned
           /\ call.count = Cardinality(naive_search(texts, call.query))

\* C2 happens: a query longer than the lookup depth, found after a jump and an LF step
C2_Witness ==
    /\ call.op = "count" /\ Searchable(call.query)
    /\ max_depth(index.lookup_tables) >= 1
    /\ Len(call.query) > max_depth(index.lookup_tables)
    /\ call.count >= 1

\* C3: count("") is the length of the concatenated text, the sum of |t| + 1 over the
\* texts, and locate("") yields each pair (text_id, position) with
\* 0 <= position <= |t_text_id| exactly once, empty texts included.
C3_EmptyPattern ==
    /\ (call.op = "count" /\ call.query = <<>>)
          => /\ call.outcome = Returned
             /\ call.count = SeqSum([t \in 1 .. Len(texts) |-> Len(texts[t]) + 1])
    /\ (call.op = "locate" /\ call.query = <<>>)
          => /\ call.outcome = Returned
             /\ HitSet(call.hits) =
                  UNION {{Hit(t - 1, pos) : pos \in 0 .. Len(texts[t])} : t \in 1 .. Len(texts)}
             /\ Len(call.hits) = Cardinality(HitSet(call.hits))

\* C3 happens: the empty pattern located in two texts, the first of them empty
C3_Witness ==
    /\ call.op = "locate" /\ call.query = <<>>
    /\ Len(texts) = 2 /\ texts[1] = <<>> /\ texts[2] # <<>>
    /\ Len(call.hits) >= 3

\* C6: the cursor grown from cursor_empty() by one extend_query_front per byte, right
\* to left, has for every suffix P' of searchable symbols the count of
\* cursor_for_query(P'), whatever the lookup depth is.
C6_JumpEqualsSteps ==
    (call.op \in {"cursor_empty", "extend_query_front"} /\ Searchable(call.query))
        => /\ call.outcome = Returned
           /\ cursor_for_query(index, call.query).outcome = Returned
           /\ call.count = interval_count(cursor_for_query(index, call.query).interval)

\* C6 happens: a two-byte query reached by two steps that the jump table answers with
\* a lookup and one step, with occurrences
C6_Witness ==
    /\ call.op = "extend_query_front" /\ Searchable(call.query)
    /\ Len(call.query) = 2 /\ max_depth(index.lookup_tables) = 1
    /\ call.count >= 1

QueryCalls == {"count", "locate", "cursor_for_query"}

\* the bytes of a query to the right of its last byte that is not in the alphabet
RightOfLastUnknown(query) ==
    LET unknown == {k \in 1 .. Len(query) : Dense(query)[k] = 0}
        last == CHOOSE k \in unknown : \A j \in unknown : j <= k
    IN  SubSeq(query, last + 1, Len(query))

C8_NonSearchableYieldsNothing ==
    (call.op \in {"count", "locate"} /\ InAlphabet(call.query) /\ ~Searchable(call.query))
        => /\ call.outcome = Returned
           /\ call.count = 0
           /\ call.hits = <<>>

\* C10: the walk back from every row of a located interval returns the entry of the
\* full suffix array for that row, whatever the sampling rate is, also when the
\* walk ends at a row whose BWT symbol is a sentinel (border + steps).
C10_RecoverEqualsSuffixArray ==
    (call.op = "locate" /\ call.outcome = Returned)
        => \A k \in 1 .. Len(call.recovered) :
              call.recovered[k] =
                construct_libsais_suffix_array(concatenated_text(texts))[call.interval.start + k - 1]

\* a walk from row i that takes a step and then ends at a sentinel row
WalkEndsAtBorder(i) ==
    LET twrs == index.text_with_rank_support
        rate == index.suffix_array.sampling_rate
        next == lf_mapping_step(index, symbol_at(twrs, i), i)
    IN  /\ i % rate # 0 /\ symbol_at(twrs, i) # 0
        /\ next % rate # 0 /\ symbol_at(twrs, next) = 0

\* C10 happens: every row of an index over several texts, one of them empty, is
\* recovered, among them one whose walk ends at a border after a step
C10_Witness ==
    /\ call.op = "locate" /\ call.query = <<>> /\ call.outcome = Returned
    /\ Len(texts) >= 2 /\ \E t \in 1 .. Len(texts) : texts[t] = <<>>
    /\ Len(call.recovered) = total_text_len(index)
    /\ \E i \in 0 .. total_text_len(index) - 1 : WalkEndsAtBorder(i)

\* the query the last yielded item belongs to
YieldedQuery == cursors.queries[cursors.yielded]

\* an item was yielded by the last call of next
ItemYielded == cursors.yielded >= 1 /\ ~cursors.done

\* C4: count_many(Q) and locate_many(Q), for Q of queries on which the single call
\* returns, yield exactly |Q| results, the k-th being count(Q[k]) and, as a set,
\* locate(Q[k]), for |Q| = 0, below, at and above the batch size.
C4_ManyEqualSingle ==
    (cursors.op \in {"count_many", "locate_many"} /\ cursors.single_outcomes \subseteq {Returned})
        => /\ cursors.iter.outcome = Returned
           /\ cursors.yielded <= Len(cursors.queries)
           /\ cursors.done => cursors.yielded = Len(cursors.queries)
           /\ (ItemYielded /\ cursors.op = "count_many")
                 => cursors.item.count =
                        interval_count(cursor_for_query(index, YieldedQuery).interval)
           /\ (ItemYielded /\ cursors.op = "locate_many")
                 => HitSet(cursors.item.hits) =
                        HitSet(locate_interval(index,
                                               cursor_for_query(index, YieldedQuery).interval))

\* C4 happens: the last result of a locate_many over two batches and two queries, the
\* only full-length one of the third batch, with a hit
C4_Witness ==
    /\ cursors.op = "locate_many" /\ cursors.single_outcomes = {Returned}
    /\ Len(cursors.queries) = 2 * BATCH_SIZE + 2
    /\ cursors.yielded = Len(cursors.queries) /\ ~cursors.done
    /\ cursors.item.hits # <<>>
    /\ YieldedQuery # <<>>

\* C5: the k-th cursor of cursors_for_many_queries(Q), for Q of queries on which
\* cursor_for_query returns, has the interval of cursor_for_query(Q[k]), and the
\* engine yields one cursor per query.
C5_BatchedCursorEqualsSingle ==
    (cursors.op = "cursors_for_many_queries" /\ cursors.single_outcomes \subseteq {Returned})
        => /\ cursors.iter.outcome = Returned
           /\ cursors.yielded <= Len(cursors.queries)
           /\ cursors.done => cursors.yielded = Len(cursors.queries)
           /\ ItemYielded
                 => cursors.item.interval = cursor_for_query(index, YieldedQuery).interval

\* C5 happens: in a second batch of queries of mixed lengths, one of them shorter
\* than the lookup depth and one longer and found by LF rounds, the cursor of a query
\* longer than the lookup depth whose interval is empty after the jump already
C5_Witness ==
    /\ cursors.op = "cursors_for_many_queries" /\ cursors.single_outcomes = {Returned}
    /\ ItemYielded /\ cursors.yielded > BATCH_SIZE
    /\ Len(YieldedQuery) > max_depth(index.lookup_tables)
    /\ interval_count(lookup(index.lookup_tables,
                             split_query_for_lookup(index, YieldedQuery)[2]).interval) = 0
    /\ interval_count(cursors.item.interval) = 0
    /\ \E k \in BATCH_SIZE + 1 .. cursors.yielded :
          Len(cursors.queries[k]) < max_depth(index.lookup_tables)
    /\ \E k \in BATCH_SIZE + 1 .. cursors.yielded :
          /\ Len(cursors.queries[k]) > max_depth(index.lookup_tables)
          /\ interval_count(cursor_for_query(index, cursors.queries[k]).interval) > 0

\* the ranks and the symbols read from a constructed structure are those of the text
RankEqualsNaiveWhenConstructed ==
    /\ ranked.op = "rank" => ranked.value = CountPrefix(ranked.text, ranked.symbol, ranked.idx)
    /\ ranked.op = "symbol_at" => ranked.value = TextAt(ranked.text, ranked.idx)

\* C9 as stated: for both encodings and both block widths every text is constructed
\* and rank(c, i) is the number of c among the first i symbols, for every c and
\* 0 <= i <= n, also when n fills or exceeds one superblock.
C9_RankEqualsNaiveCount ==
    ranked.op \in {"construct", "rank"}
        => /\ ranked.outcome = Returned
           /\ ranked.op = "rank"
                 => ranked.value = CountPrefix(ranked.text, ranked.symbol, ranked.idx)

\* C11: a structure built from the half byte compressed text answers every
\* rank(c, i), c < 16 and 0 <= i <= n, as the structure of the same encoding and
\* block width built from the text itself does.
C11_CompressedRankEqualsRawRank ==
    (ranked.op = "rank" /\ ranked.slice_compression = "HalfBytesCompression")
        => /\ ranked.outcome = Returned
           /\ ranked.value =
                  rank_unchecked(construct(ranked.encoding, ranked.text, ranked.alphabet_size,
                                           ranked.NUM_BITS),
                                 ranked.symbol, ranked.idx)

\* C11 happens: a text of odd length longer than a block, compressed, and the rank
\* at its end of the symbol that pads its last byte
C11_Witness ==
    /\ ranked.op = "rank" /\ ranked.slice_compression = "HalfBytesCompression"
    /\ ranked.text.len % 2 = 1 /\ ranked.text.len > Block64_NUM_BITS
    /\ ranked.symbols.len = ranked.text.len + 1
    /\ ranked.idx = ranked.text.len /\ ranked.symbol = 1
    /\ ranked.value > 0

\* the hit names a text of the list
HitInSomeText(hit) == hit.text_id \in 0 .. Len(texts) - 1

QueryResult(fm_index, query) ==
    LET cursor == cursor_for_query(fm_index, query)
    IN  [outcome |-> cursor.outcome,
         count |-> interval_count(cursor.interval),
         hits |-> HitSet(locate_interval(fm_index, cursor.interval))]

\* count and locate of a call equal those of every pattern of the same encoding
SameEncodingSameResult ==
    (call.op \in {"count", "locate"})
        => \A other \in SameEncodingPatterns(call.query) :
              \E result \in {QueryResult(index, other)} :
                  /\ result.outcome = call.outcome
                  /\ call.op = "count" => result.count = call.count
                  /\ call.op = "locate" => result.hits = HitSet(call.hits)

\* the crate-level example: count("GT") = 2 on the texts aACGT and acGtn
DocExampleCount ==
    (call.op = "count" /\ call.query \in DocQueries
        /\ texts \in {DocTexts, DocTextsUpperCase, DocTextsLowerCase})
        => call.count = 2

\* a step that rebuilds the index on texts with one byte replaced changes no result
ReplaceChangesNoResult ==
    (call'.op = "construct_index")
        => \A query \in GroupPatterns : QueryResult(index', query) = QueryResult(index, query)

\* C13: with ascii_dna_with_n, two patterns of the same length and the same dense
\* encodings have the same count and the same hits, replacing a text byte by another
\* byte of its group changes no query result, and count("GT") = 2 on aACGT, acGtn.
C13_ResultsDependOnEncodingsOnly ==
    /\ [](SameEncodingSameResult /\ DocExampleCount)
    /\ [][ReplaceChangesNoResult]_vars

\* C13 happens: after a byte of a text was replaced, a query in the other case of a
\* text byte is counted and found
C13_Witness ==
    /\ call.op = "count" /\ call.count >= 1 /\ Len(call.query) = 2
    /\ \E t \in 1 .. Len(texts) :
          /\ \E at \in 1 .. Len(texts[t]) : texts[t][at] = 97
          /\ \E at \in 1 .. Len(texts[t]) : texts[t][at] = 65
    /\ call.query[1] = 97 /\ call.query[2] = 97
\* the cursor the caller holds has an empty interval
HeldCursorIsEmpty ==
    /\ call.op \in {"cursor_empty", "extend_query_front"}
    /\ call.outcome = Returned
    /\ call.interval.start = call.interval.end

\* C14: a front extension of a cursor whose interval is empty, with any symbol of the
\* alphabet, returns a cursor with the same interval and count 0, and so does every
\* later one.
C14_EmptyCursorStaysEmpty ==
    [][(HeldCursorIsEmpty /\ call'.op = "extend_query_front"
            /\ InAlphabet(<<Head(call'.query)>>))
        => /\ call'.outcome = Returned
           /\ call'.interval = call.interval
           /\ call'.count = 0]_vars

\* C14 happens: the first extension emptied the interval at a row other than 0, two
\* more extensions with symbols that occur in the texts followed
C14_Witness ==
    /\ call.op = "extend_query_front" /\ call.outcome = Returned
    /\ Len(call.query) = MaxExtensions /\ InAlphabet(call.query)
    /\ interval_count(cursor_for_query(index, SubSeq(call.query, 3, 3)).interval) = 0
    /\ interval_count(cursor_for_query(index, SubSeq(call.query, 2, 2)).interval) > 0
    /\ interval_count(cursor_for_query(index, SubSeq(call.query, 1, 1)).interval) > 0
    /\ call.count = 0 /\ call.interval.start > 0
\* C15: for the sorted sentinel offsets of any number m >= 1 of texts (powers of two
\* or not, adjacent offsets of empty texts included) and every concatenated offset o
\* up to the last sentinel, lookup_text_id(o) is the smallest text id whose sentinel
\* offset is >= o.
C15_LookupFindsFirstSentinelAtOrAfter ==
    (call.op = "lookup_text_id")
        => LET s == index.text_ids.sentinel_indices
               at_or_after == {t \in DOMAIN s : s[t] >= call.concatenated_text_index}
           IN  /\ call.text_id \in at_or_after
               /\ \A t \in at_or_after : call.text_id <= t

\* C15 happens: five texts, the last two empty, and the offset looked up is the
\* sentinel of the fourth
C15_Witness ==
    /\ call.op = "lookup_text_id"
    /\ Len(texts) = 5 /\ texts[4] = <<>> /\ texts[5] = <<>> /\ texts[3] # <<>>
    /\ call.concatenated_text_index = index.text_ids.sentinel_indices[3]
    /\ call.text_id = 3
\* the symbols or groups handed to the constructor: a byte occurs twice among them
HasDuplicate(groups) ==
    \E i, j \in 1 .. Len(groups) : \E k \in 1 .. Len(groups[i]), l \in 1 .. Len(groups[j]) :
        <<i, k>> # <<j, l>> /\ groups[i][k] = groups[j][l]

HasEmptyGroup(groups) == \E i \in 1 .. Len(groups) : groups[i] = <<>>

\* the call made is a constructor call; sigma is the number of symbols or groups
IsConstructorCall == call.op \in {"from_io_symbols", "from_ambiguous_io_symbols"}

\* the constructed alphabet has sigma dense symbols plus the sentinel, sigma - k of them
\* searchable
YieldsSigmaSymbols ==
    /\ Alphabet_num_dense_symbols(call.alphabet) = Len(call.symbols) + 1
    /\ Alphabet_num_searchable_dense_symbols(call.alphabet)
          = Len(call.symbols) - call.num_io_symbols_not_searcheable
    /\ Alphabet_num_searchable_dense_symbols(call.alphabet) >= 1

\* C16 as stated: construction fails when the bytes hold a duplicate, when sigma > 255
\* or when k_non_searchable + 2 > sigma + 1, and succeeds in every other case.
C16_FailsOnlyOnDuplicateSizeOrSearchable ==
    IsConstructorCall
        => IF \/ HasDuplicate(call.symbols)
              \/ Len(call.symbols) > 255
              \/ call.num_io_symbols_not_searcheable + 2 > Len(call.symbols) + 1
           THEN call.alphabet.outcome # Returned
           ELSE call.alphabet.outcome = Returned /\ YieldsSigmaSymbols

\* C16: construction fails when a group is empty, when the bytes hold a duplicate,
\* when sigma > 255 or when k_non_searchable + 2 > sigma + 1; in every other case it
\* succeeds and yields sigma dense symbols plus the sentinel, sigma - k_non_searchable
\* of them searchable.
C16_FailsOnEmptyGroupDuplicateSizeOrSearchable ==
    IsConstructorCall
        => IF \/ HasEmptyGroup(call.symbols)
              \/ HasDuplicate(call.symbols)
              \/ Len(call.symbols) > 255
              \/ call.num_io_symbols_not_searcheable + 2 > Len(call.symbols) + 1
           THEN call.alphabet.outcome # Returned
           ELSE call.alphabet.outcome = Returned /\ YieldsSigmaSymbols

\* C16 happens: two groups, one of two bytes, one of them not searchable, are made
\* into an alphabet
C16_Witness ==
    /\ call.op = "from_ambiguous_io_symbols"
    /\ call.alphabet.outcome = Returned
    /\ Len(call.symbols) = 2 /\ Len(call.symbols[1]) = 2
    /\ call.num_io_symbols_not_searcheable = 1
    /\ Alphabet_num_searchable_dense_symbols(call.alphabet) = 1
\* compute_next_batch stands right after a move_finished_queries_to_end
AfterCompaction == cursors.op = "compute_next_batch" /\ cursors.phase = "compacted"

\* the slots of the batch
BatchSlots == 0 .. cursors.iter.curr_batch_size - 1

\* the slots of the unfinished queries after the compaction
ActiveSlots == 0 .. cursors.num_remaining_unfinished_queries - 1

\* the query the caller handed over at the position query_at_idx holds for the slot
PulledFor(i) == cursors.pulled[slot(cursors.iter.buffers.query_at_idx, i) + 1]

\* the interval a search of the query alone has once `steps` bytes of it were tried
IntervalAfter(query, steps) ==
    cursor_for_query(index, SubSeq(query, Len(query) - Min(Len(query), steps) + 1,
                                   Len(query))).interval

\* C17: after every move_finished_queries_to_end, with a unfinished queries and a
\* batch of b: each slot i < a holds a query longer than the current step with a
\* non-empty interval, each slot a <= i < b a finished query (no byte left or empty
\* interval), query_at_idx over [0, b) is a permutation of 0 .. b - 1, and the query
\* and the interval of slot i are those of the query pulled at query_at_idx[i].
C17_CompactionKeepsActiveFirstAndAligned ==
    AfterCompaction
        => /\ \A i \in ActiveSlots :
                 is_unfinished(cursors.iter.buffers, i, cursors.next_idx_in_queries)
           /\ \A i \in BatchSlots \ ActiveSlots :
                 /\ slot(cursors.iter.buffers.queries, i) # None
                 /\ \/ Len(slot(cursors.iter.buffers.queries, i)[1])
                          <= cursors.next_idx_in_queries
                    \/ interval_count(slot(cursors.iter.buffers.intervals, i)) = 0
           /\ {slot(cursors.iter.buffers.query_at_idx, i) : i \in BatchSlots} = BatchSlots
           /\ \A i \in BatchSlots :
                 /\ slot(cursors.iter.buffers.queries, i) = Some(PulledFor(i))
                 /\ slot(cursors.iter.buffers.intervals, i)
                       = IntervalAfter(PulledFor(i), cursors.next_idx_in_queries)

\* C17 happens: a full batch after an LF round, with unfinished queries left, one of
\* them swapped into its slot, a finished query with bytes left and one without
C17_Witness ==
    /\ AfterCompaction
    /\ cursors.iter.curr_batch_size = BATCH_SIZE
    /\ cursors.next_idx_in_queries > max_depth(index.lookup_tables)
    /\ cursors.num_remaining_unfinished_queries \in 1 .. BATCH_SIZE - 1
    /\ \E i \in ActiveSlots : slot(cursors.iter.buffers.query_at_idx, i) # i
    /\ \E i \in BatchSlots \ ActiveSlots :
          Len(slot(cursors.iter.buffers.queries, i)[1]) > cursors.next_idx_in_queries
    /\ \E i \in BatchSlots \ ActiveSlots :
          Len(slot(cursors.iter.buffers.queries, i)[1]) <= cursors.next_idx_in_queries
\* C18: for both encodings, replace_many_interval_borders_with_ranks on the first k
\* of the N slots replaces the start and the end of each slot j < k by
\* rank(symbols[j], start) and rank(symbols[j], end), for any symbols below the
\* alphabet size and any borders up to the text length, a start past its end included.
C18_ReplaceManyEqualsRank ==
    (ranked.op = "replace_many")
        => /\ ranked.value.symbols = ranked.symbol.symbols
           /\ \A s \in 1 .. ReplaceManySlots :
                 IF s <= ranked.idx
                 THEN /\ ranked.value.intervals[s].start
                           = rank_unchecked(Constructed, ranked.symbol.symbols[s],
                                            ranked.symbol.intervals[s].start)
                      /\ ranked.value.intervals[s].end
                           = rank_unchecked(Constructed, ranked.symbol.symbols[s],
                                            ranked.symbol.intervals[s].end)
                 ELSE ranked.value.intervals[s] = ranked.symbol.intervals[s]

\* C18 happens: all slots of the buffers are replaced on a condensed structure over a
\* text of more than a superblock, the first slot running from the text's end to 0
C18_Witness ==
    /\ ranked.op = "replace_many" /\ ranked.idx = ReplaceManySlots
    /\ ranked.encoding = "condensed" /\ ranked.text.len > condensed_superblock_size
    /\ ranked.symbol.intervals[1].start > ranked.symbol.intervals[1].end
    /\ ranked.value.intervals[1].start > 0
    /\ \E s \in 2 .. ReplaceManySlots :
          ranked.value.intervals[s].start > ranked.value.intervals[s].end
\* the rows of the suffix array of the texts whose suffix begins with the dense word
RowsBeginningWith(word) ==
    LET text == concatenated_text(texts)
        sa == construct_libsais_suffix_array(text)
    IN  {row \in DOMAIN sa :
            \A j \in 1 .. Len(word) :
                /\ sa[row] + j - 1 < ArrayLen(text)
                /\ text[sa[row] + j - 1] = word[j]}

\* sum over i of (w[i] - 1) * sigma_s ^ i, i counted from 0 at the front of the word
WordIndex(word) ==
    SeqSum([j \in 1 .. Len(word) |-> (word[j] - 1) * num_searchable_dense_symbols ^ (j - 1)])

\* C19: for every depth k up to the configured one and every word w of k searchable
\* dense symbols, the entry of table k at the index sum (w[i] - 1) * sigma_s ^ i is
\* the interval [l, r) of exactly the rows whose suffix begins with w (l = r when
\* there is none), table 0 holds the one entry (0, |T|), and the words of length k
\* and the sigma_s ^ k entries of table k correspond one to one.
C19_TableEntryIsIntervalOfWord ==
    (call.op = "lookup_without_alphabet_translation")
        => /\ call.outcome = Returned
           /\ call.idx = WordIndex(call.query)
           /\ call.interval.start <= call.interval.end
           /\ call.interval.start .. call.interval.end - 1 = RowsBeginningWith(call.query)
           /\ call.query = <<>>
                => call.interval = HalfOpenInterval(0, ArrayLen(concatenated_text(texts)))
           /\ ArrayLen(index.lookup_tables.tables[Len(call.query)])
                = num_searchable_dense_symbols ^ Len(call.query)
           /\ call.idx \in DOMAIN index.lookup_tables.tables[Len(call.query)]
           /\ \A other \in DenseWords(index) :
                 (Len(other) = Len(call.query) /\ other # call.query)
                    => WordIndex(other) # call.idx

\* C19 happens: the entry of a word of two different symbols is read from the table
\* of depth 2, and the word occurs in the second of two texts
C19_Witness ==
    /\ call.op = "lookup_without_alphabet_translation"
    /\ Len(call.query) = 2 /\ call.query[1] # call.query[2]
    /\ call.interval.start > 0 /\ call.interval.end > call.interval.start
    /\ Len(texts) = 2 /\ Len(texts[1]) = 1

\* the BWT that a returned call left in its buffer, symbol by symbol
BwtSymbols ==
    SliceCompression_iter(IF should_not_use_slice_compression(call.performance_priority)
                          THEN "NoSliceCompression" ELSE "HalfBytesCompression",
                          call.bwt)

\* C20: after the construction of the BWT the border map holds one entry for each
\* row j with BWT[j] = 0, m entries for m texts, none of them made by the padding
\* half byte of a packed BWT of odd length, and maps the row to SA[j]; the maps of
\* the outer chunks have pairwise disjoint keys, so they merge to the same map in
\* every order, and the map is the same for raw and for packed storage.
C20_BorderMapIsSentinelRows ==
    (call.op = "bwt_from_suffix_array")
        => LET n == ArrayLen(index.text)
               rows == {j \in 0 .. n - 1 : BwtSymbols[j] = 0}
           IN  /\ call.outcome = Returned
               /\ \A j \in 0 .. n - 1 :
                     BwtSymbols[j] = bwt_from_suffix_array(index.suffix_array, index.text)[j]
               /\ DOMAIN call.text_border_lookup = rows
               /\ Cardinality(rows) = Len(texts)
               /\ \A j \in rows : call.text_border_lookup[j] = index.suffix_array[j]
               /\ \A c, d \in DOMAIN call.chunk_maps :
                     c # d => DOMAIN call.chunk_maps[c] \cap DOMAIN call.chunk_maps[d] = {}
               /\ DOMAIN call.text_border_lookup
                     = UNION {DOMAIN call.chunk_maps[c] : c \in DOMAIN call.chunk_maps}
               /\ \A c \in DOMAIN call.chunk_maps : \A j \in DOMAIN call.chunk_maps[c] :
                     call.chunk_maps[c][j] = call.text_border_lookup[j]
               /\ \A other \in {"HighSpeed", "Balanced"} :
                     bwt_from_suffix_array_in_buffers(index.suffix_array, index.text, other,
                                                      call.num_threads).text_border_lookup
                        = call.text_border_lookup

\* C20 happens: a packed BWT of odd length, its padding half byte not a zero, made
\* from more than one outer chunk, with a sentinel row in a chunk after the first
C20_Witness ==
    /\ call.op = "bwt_from_suffix_array"
    /\ call.performance_priority = "Balanced"
    /\ ArrayLen(index.text) % 2 = 1
    /\ ArrayLen(BwtSymbols) = ArrayLen(index.text) + 1
    /\ BwtSymbols[ArrayLen(index.text)] = 1
    /\ Len(texts) = 2 /\ Len(texts[1]) > 0
    /\ ArrayLen(call.chunk_maps) > 1
    /\ \E c \in DOMAIN call.chunk_maps : c > 0 /\ DOMAIN call.chunk_maps[c] # {}

\* C20 also happens on a long list of empty texts, whose outer chunks hold more
\* than one inner chunk
LongPackedBwt ==
    /\ call.op = "bwt_from_suffix_array"
    /\ call.performance_priority = "LowMemory" /\ call.num_threads = 1
    /\ Len(texts) = MaxSentinelTexts - 1
    /\ ArrayLen(call.chunk_maps) > 1
    /\ \E c \in DOMAIN call.chunk_maps :
          c > 0 /\ Cardinality(DOMAIN call.chunk_maps[c]) > inner_chunk_size

\* the rank structure that a construction without workers builds for the state's input
SequentialRankStructure ==
    IF texts = <<>>
    THEN construct_from_maybe_slice_compressed_text(
             index.encoding, index.rank_text, index.text_len, index.alphabet_size,
             index.NUM_BITS)
    ELSE LET text == concatenated_text(texts)
             bwt == bwt_from_suffix_array(construct_libsais_suffix_array(text), text)
             S == IF should_not_use_slice_compression(index.performance_priority)
                  THEN "NoSliceCompression" ELSE "HalfBytesCompression"
         IN  construct_from_maybe_slice_compressed_text(
                 "condensed", iterated_symbols(S, TextOfArray(bwt)), ArrayLen(text),
                 num_dense_symbols, Block64_NUM_BITS)

\* the vectors of the built rank structure are those of the sequential construction
SameRankStructure ==
    LET sequential == SequentialRankStructure
    IN  /\ \A k \in DOMAIN index.interleaved_blocks :
              index.interleaved_blocks[k] = sequential.interleaved_blocks[k]
        /\ index.encoding = "condensed"
              => \A k \in DOMAIN index.interleaved_block_offsets :
                    index.interleaved_block_offsets[k] = sequential.interleaved_block_offsets[k]
        /\ \A k \in DOMAIN index.interleaved_superblock_offsets :
              index.interleaved_superblock_offsets[k]
                 = sequential.interleaved_superblock_offsets[k]

\* what the encoding workers and the reduction have left is the sequential result
SameTextAndTables ==
    /\ call.phase = "suffix_array"
          => /\ index.concatenated_text = concatenated_text(texts)
             /\ index.frequency_table = frequency_table(texts)
    /\ (call.phase \in {"suffix_array", "bwt", "fill_superblock", "constructed"}
            /\ texts # <<>>)
          => index.count = frequency_table_to_count(frequency_table(texts), num_dense_symbols)

\* the BWT and the border map of the chunk workers are the sequential ones
SameBwtAndBorderMap ==
    (call.phase \in {"fill_superblock", "constructed"} /\ texts # <<>>)
        => LET text == concatenated_text(texts)
               bwt == bwt_from_suffix_array(index.suffix_array, text)
           IN  /\ index.suffix_array = construct_libsais_suffix_array(text)
               /\ \A j \in DOMAIN text : TextAt(index.rank_text, j) = bwt[j]
               /\ index.text_border_lookup = text_border_lookup_of(index.suffix_array, bwt)

\* a worker that has not run yet finds its chunks as they were allocated
PendingChunksUntouched ==
    /\ call.phase = "encode"
          => \A t \in call.pending : \A k \in DOMAIN index.concatenated_text :
                (k >= split_start(texts, t) /\ k < split_start(texts, t + 1))
                    => index.concatenated_text[k] = 0
    /\ call.phase = "bwt"
          => \A c \in call.pending :
                /\ \A seg \in index.segments : ~(seg.lo <= c /\ c <= seg.hi)
                /\ \A b \in DOMAIN index.bwt :
                      b \div transform_chunk_size(index.S, index.outer_chunk_size) = c
                         => index.bwt[b] = bwt_buffers(index.concatenated_text,
                                                       index.performance_priority).bwt[b]
    /\ call.phase = "fill_superblock"
          => \A sb \in call.pending :
                /\ \A k \in DOMAIN index.interleaved_blocks :
                      k \div num_blocks_per_superblock(index.encoding, index.NUM_BITS,
                                                       index.alphabet_size) = sb
                         => index.interleaved_blocks[k] = zeroes
                /\ \A k \in DOMAIN index.interleaved_superblock_offsets :
                      k \div index.alphabet_size = sb
                         => index.interleaved_superblock_offsets[k] = 0

\* C21: the construction is deterministic: for every order in which the parallel
\* workers run and join their results, and every number of threads, the frequency and
\* count tables, the BWT, the border map and the blocks and offsets of the rank
\* structure are those of the sequential construction of the same input; the workers
\* write chunks of their own, and the superblock offsets are accumulated only when
\* every superblock worker has finished.
C21_ConstructionIsDeterministic ==
    /\ SameTextAndTables
    /\ SameBwtAndBorderMap
    /\ PendingChunksUntouched
    /\ call.phase = "constructed" => (call.pending = {} /\ SameRankStructure)

\* C21 happens: a rank structure of three superblocks whose workers ran in an order
\* other than that of the text was accumulated
C21_Witness ==
    /\ call.phase = "constructed"
    /\ texts = <<>>
    /\ index.encoding = "flat"
    /\ index.rank_text.len = MaxParallelTextLen
    /\ call.order = <<2, 0, 1>>
    /\ index.interleaved_superblock_offsets[2 * index.alphabet_size + 1] > 0

\* C21 also happens on an index of two texts whose BWT was written by more than one worker
ConstructedFromTexts ==
    /\ call.phase = "constructed"
    /\ Len(texts) = 2 /\ Len(texts[1]) > 0 /\ Len(texts[2]) > 0
    /\ index.num_threads = 2
    /\ index.performance_priority = "LowMemory"
    /\ Cardinality(DOMAIN index.text_border_lookup) = 2

\* the greatest value that block_offsets_sum[c] takes while the chunk of superblock sb
\* is filled: the number of c in the chunk
greatest_block_offsets_sum(text, superblock_size, sb, c) ==
    CountRange(text, c, sb * superblock_size, Min(text.len, (sb + 1) * superblock_size))

\* C22: while a rank structure is constructed no per-symbol block offset leaves the
\* u16 range: for every text, also one with a full superblock of 2^16 copies of one
\* symbol, every value that block_offsets_sum takes stays below 2^16 and construct
\* returns; the offset that the flat structure puts into a block fits 16 bits.
C22_BlockOffsetStaysBelowU16 ==
    ranked.op = "construct"
        => /\ ranked.outcome = Returned
           /\ \A sb \in 0 .. div_ceil(ranked.symbols.len,
                                      superblock_size_of(ranked.encoding, ranked.NUM_BITS)) - 1 :
                 \A c \in 0 .. ranked.alphabet_size - 1 :
                    greatest_block_offsets_sum(ranked.symbols,
                        superblock_size_of(ranked.encoding, ranked.NUM_BITS), sb, c)
                            < 2 ^ NUM_BLOCK_OFFSET_BITS

\* the flat structure alone keeps every offset below 2^16
FlatBlockOffsetStaysBelowU16 ==
    (ranked.op = "construct" /\ ranked.encoding = "flat") => C22_BlockOffsetStaysBelowU16

\* the positions that one block of the structure under test covers
positions_per_block ==
    IF ranked.encoding = "condensed" THEN ranked.NUM_BITS
    ELSE ranked.NUM_BITS - NUM_BLOCK_OFFSET_BITS

\* the number of block-offset records of the structure under test, one per block
num_block_offset_records ==
    IF ranked.encoding = "condensed"
    THEN Cardinality(DOMAIN Constructed["interleaved_block_offsets"]) \div ranked.alphabet_size
    ELSE Cardinality(DOMAIN Constructed["interleaved_blocks"]) \div ranked.alphabet_size

\* the offset of symbol c in record blk
stored_block_offset(blk, c) ==
    IF ranked.encoding = "condensed"
    THEN Constructed["interleaved_block_offsets"][blk * ranked.alphabet_size + c]
    ELSE extract_block_offset(Constructed["interleaved_blocks"][blk * ranked.alphabet_size + c])

\* the record after those of the text's blocks exists and holds for every symbol its
\* count in the last superblock of the text
ExtraRecordHoldsFinalCounts ==
    LET n == ranked.symbols.len
        superblock_size == superblock_size_of(ranked.encoding, ranked.NUM_BITS)
        num_text_blocks == div_ceil(n, positions_per_block)
        last_start == ((n - 1) \div superblock_size) * superblock_size
    IN  /\ num_block_offset_records = num_text_blocks + 1
        /\ \A c \in 0 .. ranked.alphabet_size - 1 :
              stored_block_offset(num_text_blocks, c) = CountRange(ranked.symbols, c, last_start, n)

\* C23 as stated: a text whose length is not a multiple of the block width gets one
\* block-offset record past the records of its blocks, holding the final counts
C23_ExtraRecordWhenNotMultiple ==
    (ranked.outcome = Returned /\ ranked.symbols.len % positions_per_block # 0)
        => ExtraRecordHoldsFinalCounts

\* C23: a structure of n symbols has floor(n / W) + 1 block-offset records, W being the
\* positions per block. That is one more than the text has blocks exactly when n is a
\* multiple of W; unless the text is empty or ends with a superblock this record holds the
\* final counts of the last superblock, else it is zero and begins a superblock whose
\* offsets are the counts of the whole text. Otherwise position n lies in the last block
\* of the text. rank(c, n) is the count of c in the text in every case.
C23_ExtraRecordWhenMultiple ==
    ranked.outcome = Returned
        => LET n == ranked.symbols.len
               superblock_size == superblock_size_of(ranked.encoding, ranked.NUM_BITS)
               num_text_blocks == div_ceil(n, positions_per_block)
           IN  /\ num_block_offset_records = n \div positions_per_block + 1
               /\ num_block_offset_records = num_text_blocks + 1 <=> n % positions_per_block = 0
               /\ (n % positions_per_block = 0 /\ n % superblock_size # 0)
                     => ExtraRecordHoldsFinalCounts
               /\ n % superblock_size = 0
                     => \A c \in 0 .. ranked.alphabet_size - 1 :
                           /\ stored_block_offset(num_text_blocks, c) = 0
                           /\ Constructed["interleaved_superblock_offsets"][
                                  (n \div superblock_size) * ranked.alphabet_size + c]
                                 = CountPrefix(ranked.symbols, c, n)
               /\ (ranked.op = "rank" /\ ranked.idx = ranked.text.len)
                     => ranked.value = CountPrefix(ranked.text, ranked.symbol, ranked.idx)

\* C23 happens: rank at the end of a text of exactly one block was answered from the
\* record after the text's blocks
C23_Witness ==
    /\ ranked.op = "rank" /\ ranked.outcome = Returned
    /\ ranked.encoding = "condensed"
    /\ ranked.text.len = ranked.NUM_BITS
    /\ ranked.idx = ranked.text.len
    /\ ranked.value > 0
    /\ stored_block_offset(1, ranked.symbol) = ranked.value

\* sigma: the symbols of the alphabet under construction, the sentinel not counted
Sigma == Alphabet_num_dense_symbols(index.alphabet) - 1

\* C24 as stated: the half bytes are chosen if and only if sigma <= 16 and the priority
\* is not HighSpeed
C24_PackedIffSigmaAtMost16 ==
    index.S = "HalfBytesCompression"
        <=> (Sigma <= 16 /\ index.performance_priority # "HighSpeed")

\* C24: the half bytes are chosen if and only if the alphabet has at most 16 dense
\* symbols with the sentinel counted (sigma <= 15) and the priority is not HighSpeed;
\* the raw bytes are used in every other case, and every dense symbol of an alphabet
\* stored in half bytes is below 16.
C24_PackedIffSigmaAtMost15 ==
    /\ index.alphabet.outcome = Returned
    /\ index.S = "HalfBytesCompression"
          <=> (Sigma <= 15 /\ index.performance_priority # "HighSpeed")
    /\ index.S = "NoSliceCompression"
          <=> (Sigma > 15 \/ index.performance_priority = "HighSpeed")
    /\ index.S = "HalfBytesCompression"
          => \A b \in 0 .. 255 : index.alphabet.io_to_dense_representation_table[b] < 16

\* C24 happens: an alphabet of 15 symbols and the sentinel is stored in half bytes,
\* the greatest dense symbol was written
C24_Witness ==
    /\ index.S = "HalfBytesCompression"
    /\ Sigma = 15
    /\ index.performance_priority = "LowMemory"
    /\ call.op = "get" /\ call.value = 15

\* the high and the low half of a byte: bits 7..4 and bits 3..0
HighNibble(byte) == byte \div 16

LowNibble(byte) == byte % 16

\* a set of a value below 16 on the half bytes has just returned
PackedSetReturned ==
    call.op = "set" /\ index.S = "HalfBytesCompression" /\ call.value < 16

\* C25 as stated: the symbol of an even index is stored in the low half of byte
\* index / 2 and that of an odd index in the high half; the other half is unchanged
C25_EvenIndexInLowNibble ==
    PackedSetReturned
        => LET byte == index.slice[call.idx \div 2]
               old == index.before[call.idx \div 2]
           IN  IF call.idx % 2 = 0
               THEN LowNibble(byte) = call.value /\ HighNibble(byte) = HighNibble(old)
               ELSE HighNibble(byte) = call.value /\ LowNibble(byte) = LowNibble(old)

\* C25: in the half bytes the symbol of an even index is stored in the high half (bits
\* 7..4) of byte index / 2 and that of an odd index in the low half; set(i, v) leaves
\* the other half of the byte and every other byte unchanged, and get(i) returns the
\* value of the latest set(i, v) when v < 16 (its low four bits in general).
C25_EvenIndexInHighNibble ==
    /\ PackedSetReturned
          => LET byte == index.slice[call.idx \div 2]
                 old == index.before[call.idx \div 2]
             IN  /\ IF call.idx % 2 = 0
                    THEN HighNibble(byte) = call.value /\ LowNibble(byte) = LowNibble(old)
                    ELSE LowNibble(byte) = call.value /\ HighNibble(byte) = HighNibble(old)
                 /\ SliceCompression_get(index.S, call.idx, index.slice) = call.value
    /\ (call.op = "set" /\ index.S = "HalfBytesCompression")
          => /\ \A k \in DOMAIN index.slice :
                   k # call.idx \div 2 => index.slice[k] = index.before[k]
             /\ \A i \in DOMAIN index.latest :
                   i # call.idx
                      => SliceCompression_get(index.S, i, index.slice)
                            = SliceCompression_get(index.S, i, index.before)
    /\ (call.op = "get" /\ index.S = "HalfBytesCompression")
          => call.value = index.latest[call.idx] % 16

\* C25 happens: a value was set at an odd index of a byte whose other half holds a
\* symbol, and read back
C25_Witness ==
    /\ index.S = "HalfBytesCompression"
    /\ call.op = "get" /\ call.idx = 3 /\ call.value = 9
    /\ index.latest[2] = 15
    /\ index.slice[1] = 15 * 16 + 9

\* create_concatenated_densely_encoded_text has returned its text and frequency table
ConcatenationReturned == call.phase = "suffix_array"

\* C26: for texts t_1 .. t_m, m >= 1, empty ones among them, the concatenation T has
\* sum |t_i| + m symbols and ends with 0; the places of T that hold 0 are exactly the
\* m sentinel indices, which increase strictly, and each text stands densely encoded
\* before its sentinel; the frequency table holds for every dense symbol the number of
\* its places in T, and m for 0.
C26_ConcatenationAndFrequencyTable ==
    ConcatenationReturned
        => LET T == index.concatenated_text
               m == Len(texts)
               indices == sentinel_indices(texts)
           IN  /\ m >= 1
               /\ ArrayLen(T) = SeqSum([t \in 1 .. m |-> Len(texts[t])]) + m
               /\ T[ArrayLen(T) - 1] = 0
               /\ ArrayLen(indices) = m
               /\ {k \in DOMAIN T : T[k] = 0} = {indices[t] : t \in 0 .. m - 1}
               /\ \A t \in 0 .. m - 2 : indices[t] < indices[t + 1]
               /\ \A t \in 1 .. m : \A j \in 1 .. Len(texts[t]) :
                     T[indices[t - 1] - Len(texts[t]) + j - 1]
                        = io_to_dense_representation(texts[t][j])
               /\ \A c \in 0 .. 255 :
                     index.frequency_table[c] = Cardinality({k \in DOMAIN T : T[k] = c})
               /\ index.frequency_table[0] = m

\* C26 happens: an empty text followed by a text of two symbols was concatenated
C26_Witness ==
    /\ ConcatenationReturned
    /\ Len(texts) = 2 /\ texts[1] = <<>> /\ Len(texts[2]) = 2
    /\ index.concatenated_text[0] = 0
    /\ index.frequency_table[0] = 2

\* the caller holds a cursor: cursor_empty, cursor_for_query or extend_query_front returned
CursorHeld ==
    call.op \in {"cursor_empty", "cursor_for_query", "extend_query_front"}
        /\ call.outcome = Returned

BatchedCursorWithinRows ==
    (cursors.op = "cursors_for_many_queries" /\ ItemYielded /\ cursors.iter.outcome = Returned)
        => /\ 0 <= cursors.item.interval.start
           /\ cursors.item.interval.start <= cursors.item.interval.end
           /\ cursors.item.interval.end <= total_text_len(index)

\* a step of the while loop of compute_next_batch: a batched LF round and its compaction
LfRoundStep ==
    /\ cursors.op = "compute_next_batch" /\ cursors.phase = "compacted"
    /\ cursors.num_remaining_unfinished_queries > 0
    /\ cursors'.phase \in {"compacted", "panicked"}

\* the step that moves the queries back to their initial order
MoveBackStep ==
    /\ cursors.op = "compute_next_batch" /\ cursors.phase = "compacted"
    /\ cursors'.phase = "moved_back"

\* the slots from `first` on hold after the step what they held before it
SlotsKept(first) ==
    \A k \in Slots :
        k >= first
            => /\ slot(cursors'.iter.buffers.intervals, k) = slot(cursors.iter.buffers.intervals, k)
               /\ slot(cursors'.iter.buffers.query_at_idx, k)
                     = slot(cursors.iter.buffers.query_at_idx, k)
               /\ slot(cursors'.iter.buffers.queries, k) = slot(cursors.iter.buffers.queries, k)

\* a round changes the intervals of the active slots only, and its compaction moves
\* queries inside the slots that were active
LfRoundKeepsDoneSlots ==
    LET active == cursors.num_remaining_unfinished_queries
        mapped == batched_lf_mappings(index, cursors.iter.buffers, cursors.next_idx_in_queries,
                                      active).buffers
    IN  /\ \A k \in Slots :
              k >= active
                 => slot(mapped.intervals, k) = slot(cursors.iter.buffers.intervals, k)
        /\ SlotsKept(active)
        /\ cursors'.num_remaining_unfinished_queries <= active
        /\ cursors'.phase = "compacted"
              => \A k \in 0 .. active - 1 : \E moved_to \in 0 .. active - 1 :
                    /\ slot(cursors'.iter.buffers.query_at_idx, moved_to)
                          = slot(cursors.iter.buffers.query_at_idx, k)
                    /\ slot(cursors'.iter.buffers.intervals, moved_to) = slot(mapped.intervals, k)

\* the move back gives every query of the batch the interval of the slot it was in
MoveBackKeepsIntervals ==
    /\ \A k \in 0 .. cursors.iter.curr_batch_size - 1 :
          /\ slot(cursors'.iter.buffers.intervals, slot(cursors.iter.buffers.query_at_idx, k))
                = slot(cursors.iter.buffers.intervals, k)
          /\ slot(cursors'.iter.buffers.query_at_idx, k) = k
    /\ \A k \in Slots :
          k >= cursors.iter.curr_batch_size
             => slot(cursors'.iter.buffers.intervals, k) = slot(cursors.iter.buffers.intervals, k)

\* C28: a batched LF round changes the intervals of the active slots [0, active) only.
\* The slot of a finished query keeps its interval, its query and its place in the
\* initial order through every later round and compaction, and the move back to the
\* initial order hands each query the interval of its slot: the interval returned for
\* a finished query is the one it had when it finished.
C28_FinishedIntervalsKept ==
    [][/\ LfRoundStep => LfRoundKeepsDoneSlots
       /\ MoveBackStep => MoveBackKeepsIntervals]_vars

\* C28 happens: two rounds were made, and a query that was found and finished by the
\* first of them is not in its initial slot
C28_Witness ==
    /\ cursors.op = "compute_next_batch" /\ cursors.phase = "compacted"
    /\ cursors.next_idx_in_queries >= max_depth(index.lookup_tables) + 2
    /\ \E k \in cursors.num_remaining_unfinished_queries .. cursors.iter.curr_batch_size - 1 :
          /\ Len(slot(cursors.iter.buffers.queries, k)[1]) = max_depth(index.lookup_tables) + 1
          /\ slot(cursors.iter.buffers.intervals, k).start # slot(cursors.iter.buffers.intervals, k).end
          /\ slot(cursors.iter.buffers.query_at_idx, k) # k

\* the full suffix array of the indexed texts
FullSuffixArray == construct_libsais_suffix_array(concatenated_text(texts))

\* the offset of place p of the concatenation inside its text
OffsetInText(p) ==
    LET t == CHOOSE u \in 1 .. Len(texts) :
                 split_start(texts, u) <= p /\ p < split_start(texts, u + 1)
    IN  p - split_start(texts, t)

\* the walk from a row: steps done so far are at most the offset of the row's suffix
\* inside its text, a return through the border map found the key of the current
\* row, and the value returned is the row's suffix array entry
WalkWithinText ==
    call.op = "recover"
        => /\ call.num_steps_done <= OffsetInText(FullSuffixArray[call.row])
           /\ FullSuffixArray[call.i] = FullSuffixArray[call.row] - call.num_steps_done
           /\ call.phase # "panicked"
           /\ call.phase = "border"
                 => /\ call.i \in DOMAIN index.suffix_array.text_border_lookup
                    /\ symbol_at(index.text_with_rank_support, call.i) = 0
           /\ call.phase = "sampled" => call.i % index.suffix_array.sampling_rate = 0
           /\ call.phase \in {"border", "sampled"} => call.value = FullSuffixArray[call.row]

\* C29: for every row i of the BWT the walk back of recover ends: it makes at most
\* as many LF steps as the offset of SA[i] inside its text and then returns from a
\* sampled row or from a row whose BWT symbol is the sentinel, and whenever it returns
\* through the border map the map holds the key of the current row.
C29_WalkBackTerminates ==
    /\ []WalkWithinText
    /\ (call.op = "recover" /\ call.phase = "loop") ~> (call.phase \in {"border", "sampled"})

\* C29 happens: a walk of as many steps as the offset of its suffix inside a text that
\* is not the first returned through the border map
C29_Witness ==
    /\ call.op = "recover" /\ call.phase = "border"
    /\ call.num_steps_done >= 2
    /\ call.num_steps_done = OffsetInText(FullSuffixArray[call.row])
    /\ FullSuffixArray[call.row] > call.num_steps_done

\* the length of the longest query of the batch
LongestQueryOfBatch ==
    LET lens == {Len(slot(cursors.iter.buffers.queries, k)[1]) :
                    k \in 0 .. cursors.iter.curr_batch_size - 1}
    IN  IF lens = {} THEN 0 ELSE CHOOSE len \in lens : \A other \in lens : other <= len

\* compute_next_batch is running
InComputeNextBatch == cursors.phase \in {"compaction", "move_back"}

\* the rounds made for the batch are at most the bytes of its longest query that the
\* lookup jump has left
RoundsWithinLongestQuery ==
    InComputeNextBatch
        => /\ cursors.rounds <= IF LongestQueryOfBatch > max_depth(index.lookup_tables)
                                THEN LongestQueryOfBatch - max_depth(index.lookup_tables)
                                ELSE 0
           /\ cursors.num_remaining_unfinished_queries <= cursors.iter.curr_batch_size
           /\ cursors.phase = "compaction" => cursors.i <= cursors.num_remaining_unfinished_queries

\* inside one call the number of unfinished queries does not grow
ActiveCountDoesNotGrow ==
    (InComputeNextBatch /\ cursors'.phase \in {"compaction", "move_back"})
        => cursors'.num_remaining_unfinished_queries <= cursors.num_remaining_unfinished_queries

\* C30: compute_next_batch ends for every batch (it returns, or it unwinds from a panic
\* of a lookup or of a translation): each loop of move_finished_queries_to_end ends,
\* the loop of move_queries_back_to_initial_order ends, the number of unfinished queries
\* never grows from one round to the next, and at most max(0, longest query of the
\* batch - K) batched LF rounds are made, K being the depth of the lookup tables.
C30_ComputeNextBatchTerminates ==
    /\ []RoundsWithinLongestQuery
    /\ [][ActiveCountDoesNotGrow]_vars
    /\ (cursors.phase = "compaction")
          ~> (cursors.phase # "compaction"
                 \/ cursors.i >= cursors.num_remaining_unfinished_queries)
    /\ (cursors.phase = "move_back") ~> (cursors.phase = "ready")
    /\ InComputeNextBatch ~> (cursors.phase \in {"ready", "panicked"})

\* C30 happens: a full batch whose longest query needed every round it may take was
\* moved back to its initial order and is ready
C30_Witness ==
    /\ cursors.op = "compute_next_batch" /\ cursors.phase = "ready"
    /\ cursors.iter.curr_batch_size = BATCH_SIZE
    /\ cursors.rounds > 1
    /\ cursors.rounds = LongestQueryOfBatch - max_depth(index.lookup_tables)
====
